---- MODULE Spec2Model ----
(***************************************************************************)
(* Verification model of the wow-vr decoding pipeline:                     *)
(*   wow_vr_lib/src/mpq.rs   cipher table, hash, decrypt, MPQFile          *)
(*   wow_vr_lib/src/m2.rs    M2Asset::new                                  *)
(*   the archive collection and the asset facade of spec sections 4.4/4.7  *)
(*                                                                         *)
(* TLC integers are 32-bit signed, so the unsigned machine integers of the *)
(* source are sequences of 16-bit limbs, least significant first: a u32 is *)
(* <<l0, l1>>, a u64 is <<l0, l1, l2, l3>>.                                *)
(***************************************************************************)
EXTENDS Integers, Sequences, FiniteSets, TLC

\* ------------------------------------------------------------------------
\* Machine integers
\* ------------------------------------------------------------------------
\* the element of a singleton set; {f(v) : v \in {e}} binds the value of e
Only(S) == CHOOSE v \in S : TRUE

RECURSIVE BitXor(_, _, _)
BitXor(a, b, n) ==
    IF n = 0 THEN 0
    ELSE ((a + b) % 2) + 2 * BitXor(a \div 2, b \div 2, n - 1)

RECURSIVE BitOr(_, _, _)
BitOr(a, b, n) ==
    IF n = 0 THEN 0
    ELSE (IF (a % 2) + (b % 2) > 0 THEN 1 ELSE 0) + 2 * BitOr(a \div 2, b \div 2, n - 1)

RECURSIVE BitAnd(_, _, _)
BitAnd(a, b, n) ==
    IF n = 0 THEN 0
    ELSE ((a % 2) * (b % 2)) + 2 * BitAnd(a \div 2, b \div 2, n - 1)

RECURSIVE Pow2(_)
Pow2(n) == IF n = 0 THEN 1 ELSE 2 * Pow2(n - 1)

\* one limb holds 16 bits
LimbBase == Pow2(16)

\* a ^ b, a | b, a & b, !a on limb sequences of equal length
XorL(a, b) == [i \in DOMAIN a |-> BitXor(a[i], b[i], 16)]
OrL(a, b) == [i \in DOMAIN a |-> BitOr(a[i], b[i], 16)]
AndL(a, b) == [i \in DOMAIN a |-> BitAnd(a[i], b[i], 16)]
NotL(a) == [i \in DOMAIN a |-> (LimbBase - 1) - a[i]]

\* carry out of limb i of a + b
RECURSIVE Carry(_, _, _)
Carry(a, b, i) ==
    IF i = 0 THEN 0 ELSE (a[i] + b[i] + Carry(a, b, i - 1)) \div LimbBase

\* a + b modulo the width, and whether the exact sum leaves the width
AddL(a, b) == [i \in DOMAIN a |-> (a[i] + b[i] + Carry(a, b, i - 1)) % LimbBase]
AddOverflows(a, b) == Carry(a, b, Len(a)) = 1

LimbAt(a, i) == IF i \in DOMAIN a THEN a[i] ELSE 0

\* a << k and a >> k (bits shifted out are dropped, as in Rust for k < width)
ShlL(a, k) ==
    LET q == k \div 16
        r == k % 16
    IN  [i \in DOMAIN a |->
            ((LimbAt(a, i - q) * Pow2(r)) % LimbBase)
            + (LimbAt(a, i - q - 1) \div Pow2(16 - r))]

ShrL(a, k) ==
    LET q == k \div 16
        r == k % 16
    IN  [i \in DOMAIN a |->
            (LimbAt(a, i + q) \div Pow2(r))
            + ((LimbAt(a, i + q + 1) * Pow2(16 - r)) % LimbBase)]

\* an integer below 2^31 as u32 / u64; `x as u64`; `x as u32`
U32(n) == <<n % LimbBase, n \div LimbBase>>
U64(n) == <<n % LimbBase, n \div LimbBase, 0, 0>>
AsU64(w) == <<w[1], w[2], 0, 0>>
AsU32(w) == <<w[1], w[2]>>
\* `x as usize` for a value known to be below 2^16
AsIndex(w) == w[1]

\* 0xFFFFFFFF, 0xEEEEEEEE, 0x7FED7FED, 0x11111111 as u64
MASK32 == <<65535, 65535, 0, 0>>
SEED2_INIT == <<61166, 61166, 0, 0>>
HASH_SEED1_INIT == <<32749, 32749, 0, 0>>
DECRYPT_ADD == <<4369, 4369, 0, 0>>

\* ------------------------------------------------------------------------
\* mpq.rs: ENCRYPTION_TABLE
\* ------------------------------------------------------------------------
TABLE_SEED_INIT == 1048577      \* 0x00100001
TABLE_MODULUS == 2796203        \* 0x2AAAAB
TABLE_OUTER == 256
TABLE_INNER == 5
TABLE_STRIDE == 256             \* index += 0x100

NextSeed(seed) == (seed * 125 + 3) % TABLE_MODULUS

\* the inner loop body with the two halves of the entry exchanged
TableEntrySwapped(seed) ==
    LET seedA == NextSeed(seed)
        temp1 == AndL(U32(seedA), U32(65535))
        seedB == NextSeed(seedA)
        temp2 == ShlL(AndL(U32(seedB), U32(65535)), 16)
    IN  [seed |-> seedB, value |-> OrL(temp1, temp2)]

\* one pass of the inner loop body: two seed updates and the stored entry
TableEntry(seed) ==
    LET seedA == NextSeed(seed)
        temp1 == ShlL(AndL(U32(seedA), U32(65535)), 16)
        seedB == NextSeed(seedA)
        temp2 == AndL(U32(seedB), U32(65535))
    IN  [seed |-> seedB, value |-> OrL(temp1, temp2)]

\* the seeds after 1, 2, ..., n further updates. The recursion halves n and
\* binds the first half as a value before the second half starts, so that the
\* evaluation depth stays logarithmic in the 2560 updates of the loop
RECURSIVE SeedsAfter(_, _)
SeedsAfter(seed, n) ==
    IF n = 0 THEN <<>>
    ELSE IF n = 1 THEN <<NextSeed(seed)>>
    ELSE Only({left \o SeedsAfter(left[Len(left)], n - (n \div 2)) :
                  left \in {SeedsAfter(seed, n \div 2)}})

\* every value `seed` takes in the loop, in order: two updates per pass
TABLE_SEEDS == SeedsAfter(TABLE_SEED_INIT, 2 * TABLE_OUTER * TABLE_INNER)

\* the entry written by pass j (0..4) of the inner loop in outer iteration i:
\* the seed is carried through all earlier passes
TableValue(i, j) ==
    LET p == TABLE_INNER * i + j
        before == IF p = 0 THEN TABLE_SEED_INIT ELSE TABLE_SEEDS[2 * p]
    IN  TableEntry(before).value

\* the finished table; 1-based here: ENCRYPTION_TABLE[index + 1] is the
\* source's table[index], and pass j of iteration i wrote index i + 0x100 * j
ENCRYPTION_TABLE ==
    SubSeq([k \in 1..(TABLE_OUTER * TABLE_INNER) |->
               TableValue((k - 1) % TABLE_STRIDE, (k - 1) \div TABLE_STRIDE)],
           1, TABLE_OUTER * TABLE_INNER)

\* ------------------------------------------------------------------------
\* mpq.rs: hash, decrypt (byte strings are sequences of 0..255)
\* ------------------------------------------------------------------------
\* HashType as u32
HASH_TABLE_OFFSET == 0
HASH_A == 1
HASH_B == 2
HASH_TABLE == 3

\* a char of a str: the scalar value of the UTF-8 sequence that starts with
\* the byte lead, and its encoding (core::str, char::encode_utf8)
utf8_char_width(lead) ==
    IF lead < 128 THEN 1 ELSE IF lead < 224 THEN 2 ELSE IF lead < 240 THEN 3 ELSE 4
decode_utf8(bytes) ==
    IF Len(bytes) = 1 THEN bytes[1]
    ELSE IF Len(bytes) = 2 THEN (bytes[1] - 192) * 64 + (bytes[2] - 128)
    ELSE IF Len(bytes) = 3
    THEN (bytes[1] - 224) * 4096 + (bytes[2] - 128) * 64 + (bytes[3] - 128)
    ELSE (bytes[1] - 240) * 262144 + (bytes[2] - 128) * 4096
         + (bytes[3] - 128) * 64 + (bytes[4] - 128)
encode_utf8(c) ==
    IF c < 128 THEN <<c>>
    ELSE IF c < 2048 THEN <<192 + (c \div 64), 128 + (c % 64)>>
    ELSE IF c < 65536
    THEN <<224 + (c \div 4096), 128 + ((c \div 64) % 64), 128 + (c % 64)>>
    ELSE <<240 + (c \div 262144), 128 + ((c \div 4096) % 64),
           128 + ((c \div 64) % 64), 128 + (c % 64)>>

\* the uppercase mapping of the Unicode character database that
\* char::to_uppercase applies (UnicodeData.txt and the unconditional
\* mappings of SpecialCasing.txt, Unicode 17.0):
\* <<first, last, stride, delta>> maps the characters first, first + stride,
\* ..., last to themselves plus delta; <<c, chars>> maps c to several
\* characters
UPPERCASE_RANGES ==
    <<<<97, 122, 1, 0 - 32>>, <<181, 181, 1, 743>>, <<224, 246, 1, 0 - 32>>, <<248, 254, 1, 0 - 32>>,
       <<255, 255, 1, 121>>, <<257, 303, 2, 0 - 1>>, <<305, 305, 1, 0 - 232>>, <<307, 311, 2, 0 - 1>>,
       <<314, 328, 2, 0 - 1>>, <<331, 375, 2, 0 - 1>>, <<378, 382, 2, 0 - 1>>, <<383, 383, 1, 0 - 300>>,
       <<384, 384, 1, 195>>, <<387, 389, 2, 0 - 1>>, <<392, 392, 1, 0 - 1>>, <<396, 396, 1, 0 - 1>>,
       <<402, 402, 1, 0 - 1>>, <<405, 405, 1, 97>>, <<409, 409, 1, 0 - 1>>, <<410, 410, 1, 163>>,
       <<411, 411, 1, 42561>>, <<414, 414, 1, 130>>, <<417, 421, 2, 0 - 1>>, <<424, 424, 1, 0 - 1>>,
       <<429, 429, 1, 0 - 1>>, <<432, 432, 1, 0 - 1>>, <<436, 438, 2, 0 - 1>>, <<441, 441, 1, 0 - 1>>,
       <<445, 445, 1, 0 - 1>>, <<447, 447, 1, 56>>, <<453, 453, 1, 0 - 1>>, <<454, 454, 1, 0 - 2>>,
       <<456, 456, 1, 0 - 1>>, <<457, 457, 1, 0 - 2>>, <<459, 459, 1, 0 - 1>>, <<460, 460, 1, 0 - 2>>,
       <<462, 476, 2, 0 - 1>>, <<477, 477, 1, 0 - 79>>, <<479, 495, 2, 0 - 1>>, <<498, 498, 1, 0 - 1>>,
       <<499, 499, 1, 0 - 2>>, <<501, 501, 1, 0 - 1>>, <<505, 543, 2, 0 - 1>>, <<547, 563, 2, 0 - 1>>,
       <<572, 572, 1, 0 - 1>>, <<575, 576, 1, 10815>>, <<578, 578, 1, 0 - 1>>, <<583, 591, 2, 0 - 1>>,
       <<592, 592, 1, 10783>>, <<593, 593, 1, 10780>>, <<594, 594, 1, 10782>>, <<595, 595, 1, 0 - 210>>,
       <<596, 596, 1, 0 - 206>>, <<598, 599, 1, 0 - 205>>, <<601, 601, 1, 0 - 202>>, <<603, 603, 1, 0 - 203>>,
       <<604, 604, 1, 42319>>, <<608, 608, 1, 0 - 205>>, <<609, 609, 1, 42315>>, <<611, 611, 1, 0 - 207>>,
       <<612, 612, 1, 42343>>, <<613, 613, 1, 42280>>, <<614, 614, 1, 42308>>, <<616, 616, 1, 0 - 209>>,
       <<617, 617, 1, 0 - 211>>, <<618, 618, 1, 42308>>, <<619, 619, 1, 10743>>, <<620, 620, 1, 42305>>,
       <<623, 623, 1, 0 - 211>>, <<625, 625, 1, 10749>>, <<626, 626, 1, 0 - 213>>, <<629, 629, 1, 0 - 214>>,
       <<637, 637, 1, 10727>>, <<640, 640, 1, 0 - 218>>, <<642, 642, 1, 42307>>, <<643, 643, 1, 0 - 218>>,
       <<647, 647, 1, 42282>>, <<648, 648, 1, 0 - 218>>, <<649, 649, 1, 0 - 69>>, <<650, 651, 1, 0 - 217>>,
       <<652, 652, 1, 0 - 71>>, <<658, 658, 1, 0 - 219>>, <<669, 669, 1, 42261>>, <<670, 670, 1, 42258>>,
       <<837, 837, 1, 84>>, <<881, 883, 2, 0 - 1>>, <<887, 887, 1, 0 - 1>>, <<891, 893, 1, 130>>,
       <<940, 940, 1, 0 - 38>>, <<941, 943, 1, 0 - 37>>, <<945, 961, 1, 0 - 32>>, <<962, 962, 1, 0 - 31>>,
       <<963, 971, 1, 0 - 32>>, <<972, 972, 1, 0 - 64>>, <<973, 974, 1, 0 - 63>>, <<976, 976, 1, 0 - 62>>,
       <<977, 977, 1, 0 - 57>>, <<981, 981, 1, 0 - 47>>, <<982, 982, 1, 0 - 54>>, <<983, 983, 1, 0 - 8>>,
       <<985, 1007, 2, 0 - 1>>, <<1008, 1008, 1, 0 - 86>>, <<1009, 1009, 1, 0 - 80>>, <<1010, 1010, 1, 7>>,
       <<1011, 1011, 1, 0 - 116>>, <<1013, 1013, 1, 0 - 96>>, <<1016, 1016, 1, 0 - 1>>, <<1019, 1019, 1, 0 - 1>>,
       <<1072, 1103, 1, 0 - 32>>, <<1104, 1119, 1, 0 - 80>>, <<1121, 1153, 2, 0 - 1>>, <<1163, 1215, 2, 0 - 1>>,
       <<1218, 1230, 2, 0 - 1>>, <<1231, 1231, 1, 0 - 15>>, <<1233, 1327, 2, 0 - 1>>, <<1377, 1414, 1, 0 - 48>>,
       <<4304, 4346, 1, 3008>>, <<4349, 4351, 1, 3008>>, <<5112, 5117, 1, 0 - 8>>, <<7296, 7296, 1, 0 - 6254>>,
       <<7297, 7297, 1, 0 - 6253>>, <<7298, 7298, 1, 0 - 6244>>, <<7299, 7300, 1, 0 - 6242>>, <<7301, 7301, 1, 0 - 6243>>,
       <<7302, 7302, 1, 0 - 6236>>, <<7303, 7303, 1, 0 - 6181>>, <<7304, 7304, 1, 35266>>, <<7306, 7306, 1, 0 - 1>>,
       <<7545, 7545, 1, 35332>>, <<7549, 7549, 1, 3814>>, <<7566, 7566, 1, 35384>>, <<7681, 7829, 2, 0 - 1>>,
       <<7835, 7835, 1, 0 - 59>>, <<7841, 7935, 2, 0 - 1>>, <<7936, 7943, 1, 8>>, <<7952, 7957, 1, 8>>,
       <<7968, 7975, 1, 8>>, <<7984, 7991, 1, 8>>, <<8000, 8005, 1, 8>>, <<8017, 8023, 2, 8>>,
       <<8032, 8039, 1, 8>>, <<8048, 8049, 1, 74>>, <<8050, 8053, 1, 86>>, <<8054, 8055, 1, 100>>,
       <<8056, 8057, 1, 128>>, <<8058, 8059, 1, 112>>, <<8060, 8061, 1, 126>>, <<8112, 8113, 1, 8>>,
       <<8126, 8126, 1, 0 - 7205>>, <<8144, 8145, 1, 8>>, <<8160, 8161, 1, 8>>, <<8165, 8165, 1, 7>>,
       <<8526, 8526, 1, 0 - 28>>, <<8560, 8575, 1, 0 - 16>>, <<8580, 8580, 1, 0 - 1>>, <<9424, 9449, 1, 0 - 26>>,
       <<11312, 11359, 1, 0 - 48>>, <<11361, 11361, 1, 0 - 1>>, <<11365, 11365, 1, 0 - 10795>>, <<11366, 11366, 1, 0 - 10792>>,
       <<11368, 11372, 2, 0 - 1>>, <<11379, 11379, 1, 0 - 1>>, <<11382, 11382, 1, 0 - 1>>, <<11393, 11491, 2, 0 - 1>>,
       <<11500, 11502, 2, 0 - 1>>, <<11507, 11507, 1, 0 - 1>>, <<11520, 11557, 1, 0 - 7264>>, <<11559, 11559, 1, 0 - 7264>>,
       <<11565, 11565, 1, 0 - 7264>>, <<42561, 42605, 2, 0 - 1>>, <<42625, 42651, 2, 0 - 1>>, <<42787, 42799, 2, 0 - 1>>,
       <<42803, 42863, 2, 0 - 1>>, <<42874, 42876, 2, 0 - 1>>, <<42879, 42887, 2, 0 - 1>>, <<42892, 42892, 1, 0 - 1>>,
       <<42897, 42899, 2, 0 - 1>>, <<42900, 42900, 1, 48>>, <<42903, 42921, 2, 0 - 1>>, <<42933, 42947, 2, 0 - 1>>,
       <<42952, 42954, 2, 0 - 1>>, <<42957, 42971, 2, 0 - 1>>, <<42998, 42998, 1, 0 - 1>>, <<43859, 43859, 1, 0 - 928>>,
       <<43888, 43967, 1, 0 - 38864>>, <<65345, 65370, 1, 0 - 32>>, <<66600, 66639, 1, 0 - 40>>, <<66776, 66811, 1, 0 - 40>>,
       <<66967, 66977, 1, 0 - 39>>, <<66979, 66993, 1, 0 - 39>>, <<66995, 67001, 1, 0 - 39>>, <<67003, 67004, 1, 0 - 39>>,
       <<68800, 68850, 1, 0 - 64>>, <<68976, 68997, 1, 0 - 32>>, <<71872, 71903, 1, 0 - 32>>, <<93792, 93823, 1, 0 - 32>>,
       <<93883, 93907, 1, 0 - 27>>, <<125218, 125251, 1, 0 - 34>>>>
UPPERCASE_SPECIAL ==
    <<<<223, <<83, 83>>>>, <<329, <<700, 78>>>>, <<496, <<74, 780>>>>,
       <<912, <<921, 776, 769>>>>, <<944, <<933, 776, 769>>>>, <<1415, <<1333, 1362>>>>,
       <<7830, <<72, 817>>>>, <<7831, <<84, 776>>>>, <<7832, <<87, 778>>>>,
       <<7833, <<89, 778>>>>, <<7834, <<65, 702>>>>, <<8016, <<933, 787>>>>,
       <<8018, <<933, 787, 768>>>>, <<8020, <<933, 787, 769>>>>, <<8022, <<933, 787, 834>>>>,
       <<8064, <<7944, 921>>>>, <<8065, <<7945, 921>>>>, <<8066, <<7946, 921>>>>,
       <<8067, <<7947, 921>>>>, <<8068, <<7948, 921>>>>, <<8069, <<7949, 921>>>>,
       <<8070, <<7950, 921>>>>, <<8071, <<7951, 921>>>>, <<8072, <<7944, 921>>>>,
       <<8073, <<7945, 921>>>>, <<8074, <<7946, 921>>>>, <<8075, <<7947, 921>>>>,
       <<8076, <<7948, 921>>>>, <<8077, <<7949, 921>>>>, <<8078, <<7950, 921>>>>,
       <<8079, <<7951, 921>>>>, <<8080, <<7976, 921>>>>, <<8081, <<7977, 921>>>>,
       <<8082, <<7978, 921>>>>, <<8083, <<7979, 921>>>>, <<8084, <<7980, 921>>>>,
       <<8085, <<7981, 921>>>>, <<8086, <<7982, 921>>>>, <<8087, <<7983, 921>>>>,
       <<8088, <<7976, 921>>>>, <<8089, <<7977, 921>>>>, <<8090, <<7978, 921>>>>,
       <<8091, <<7979, 921>>>>, <<8092, <<7980, 921>>>>, <<8093, <<7981, 921>>>>,
       <<8094, <<7982, 921>>>>, <<8095, <<7983, 921>>>>, <<8096, <<8040, 921>>>>,
       <<8097, <<8041, 921>>>>, <<8098, <<8042, 921>>>>, <<8099, <<8043, 921>>>>,
       <<8100, <<8044, 921>>>>, <<8101, <<8045, 921>>>>, <<8102, <<8046, 921>>>>,
       <<8103, <<8047, 921>>>>, <<8104, <<8040, 921>>>>, <<8105, <<8041, 921>>>>,
       <<8106, <<8042, 921>>>>, <<8107, <<8043, 921>>>>, <<8108, <<8044, 921>>>>,
       <<8109, <<8045, 921>>>>, <<8110, <<8046, 921>>>>, <<8111, <<8047, 921>>>>,
       <<8114, <<8122, 921>>>>, <<8115, <<913, 921>>>>, <<8116, <<902, 921>>>>,
       <<8118, <<913, 834>>>>, <<8119, <<913, 834, 921>>>>, <<8124, <<913, 921>>>>,
       <<8130, <<8138, 921>>>>, <<8131, <<919, 921>>>>, <<8132, <<905, 921>>>>,
       <<8134, <<919, 834>>>>, <<8135, <<919, 834, 921>>>>, <<8140, <<919, 921>>>>,
       <<8146, <<921, 776, 768>>>>, <<8147, <<921, 776, 769>>>>, <<8150, <<921, 834>>>>,
       <<8151, <<921, 776, 834>>>>, <<8162, <<933, 776, 768>>>>, <<8163, <<933, 776, 769>>>>,
       <<8164, <<929, 787>>>>, <<8166, <<933, 834>>>>, <<8167, <<933, 776, 834>>>>,
       <<8178, <<8186, 921>>>>, <<8179, <<937, 921>>>>, <<8180, <<911, 921>>>>,
       <<8182, <<937, 834>>>>, <<8183, <<937, 834, 921>>>>, <<8188, <<937, 921>>>>,
       <<64256, <<70, 70>>>>, <<64257, <<70, 73>>>>, <<64258, <<70, 76>>>>,
       <<64259, <<70, 70, 73>>>>, <<64260, <<70, 70, 76>>>>, <<64261, <<83, 84>>>>,
       <<64262, <<83, 84>>>>, <<64275, <<1348, 1350>>>>, <<64276, <<1348, 1333>>>>,
       <<64277, <<1348, 1339>>>>, <<64278, <<1358, 1350>>>>, <<64279, <<1348, 1341>>>>>>

\* (c as u8).to_ascii_uppercase()
UpperByte(c) == IF c >= 97 /\ c <= 122 THEN c - 32 ELSE c

\* core::unicode::conversions::to_upper(c): the one to three characters of
\* the uppercase of the character c
to_upper(c) ==
    IF c < 128 THEN <<UpperByte(c)>>
    ELSE IF \E k \in DOMAIN UPPERCASE_SPECIAL : UPPERCASE_SPECIAL[k][1] = c
    THEN UPPERCASE_SPECIAL[CHOOSE k \in DOMAIN UPPERCASE_SPECIAL :
                              UPPERCASE_SPECIAL[k][1] = c][2]
    ELSE IF \E k \in DOMAIN UPPERCASE_RANGES :
               /\ UPPERCASE_RANGES[k][1] <= c /\ c <= UPPERCASE_RANGES[k][2]
               /\ (c - UPPERCASE_RANGES[k][1]) % UPPERCASE_RANGES[k][3] = 0
    THEN <<c + UPPERCASE_RANGES[CHOOSE k \in DOMAIN UPPERCASE_RANGES :
                  /\ UPPERCASE_RANGES[k][1] <= c /\ c <= UPPERCASE_RANGES[k][2]
                  /\ (c - UPPERCASE_RANGES[k][1]) % UPPERCASE_RANGES[k][3] = 0][4]>>
    ELSE <<c>>

\* the UTF-8 bytes of a sequence of characters
RECURSIVE encode_chars(_)
encode_chars(chars) ==
    IF chars = <<>> THEN <<>> ELSE encode_utf8(chars[1]) \o encode_chars(Tail(chars))

\* str::to_uppercase on the UTF-8 bytes of a string: character by character
RECURSIVE to_uppercase(_)
to_uppercase(string) ==
    IF string = <<>> THEN <<>>
    ELSE Only({encode_chars(to_upper(decode_utf8(SubSeq(string, 1, width))))
               \o to_uppercase(SubSeq(string, width + 1, Len(string))) :
               width \in {IF utf8_char_width(string[1]) > Len(string) THEN Len(string)
                          ELSE utf8_char_width(string[1])}})

\* the iteration of the loop of hash with seed2 << 4 in place of seed2 << 5
hash_step_shift4(hash_type, ch, seed1, seed2) ==
    LET value == AsU64(ENCRYPTION_TABLE[((hash_type * Pow2(8)) + ch) + 1])
    IN  Only({<<s1, AndL(AddL(AddL(AddL(AddL(U64(ch), s1), seed2),
                                   ShlL(seed2, 4)), U64(3)), MASK32)>> :
                 s1 \in {AndL(XorL(value, AddL(seed1, seed2)), MASK32)}})

\* one iteration of the loop of hash: the new <<seed1, seed2>> (u64)
hash_step(hash_type, ch, seed1, seed2) ==
    LET value == AsU64(ENCRYPTION_TABLE[((hash_type * Pow2(8)) + ch) + 1])
    IN  Only({<<s1, AndL(AddL(AddL(AddL(AddL(U64(ch), s1), seed2),
                                   ShlL(seed2, 5)), U64(3)), MASK32)>> :
                 s1 \in {AndL(XorL(value, AddL(seed1, seed2)), MASK32)}})

\* the loop of hash from byte i on
RECURSIVE hash_loop(_, _, _, _)
hash_loop(string_b, hash_type, i, seeds) ==
    IF i > Len(string_b) THEN AsU32(seeds[1])
    ELSE Only({hash_loop(string_b, hash_type, i + 1, next) :
                  next \in {hash_step(hash_type, string_b[i], seeds[1], seeds[2])}})

\* hash(string, hash_type): always Ok(seed1 as u32); the u32 is returned
hash(string, hash_type) ==
    Only({hash_loop(string_b, hash_type, 1, <<HASH_SEED1_INIT, SEED2_INIT>>) :
             string_b \in {to_uppercase(string)}})

\* read_u32::<LittleEndian> at byte offset ofs (0-based), widened to u64
ReadU32LE(data, ofs) ==
    <<data[ofs + 1] + 256 * data[ofs + 2], data[ofs + 3] + 256 * data[ofs + 4], 0, 0>>

\* write_u32::<LittleEndian>(value as u32) at byte offset ofs of result
WriteU32LE(result, ofs, value) ==
    [k \in DOMAIN result |->
        IF k = ofs + 1 THEN value[1] % 256
        ELSE IF k = ofs + 2 THEN value[1] \div 256
        ELSE IF k = ofs + 3 THEN value[2] % 256
        ELSE IF k = ofs + 4 THEN value[2] \div 256
        ELSE result[k]]

\* one iteration of the loop of decrypt on the input word (u64): the new
\* seeds, the output word, and whether an u64 addition left 64 bits
decrypt_step(word, seed1, seed2) ==
    LET entry == AsU64(ENCRYPTION_TABLE[
                     AsIndex(AddL(U64(1024), AndL(seed1, U64(255)))) + 1])
        shifted == ShlL(NotL(seed1), 21)
    IN  Only({
          Only({
            Only({
              [seed1 |-> AndL(OrL(AddL(shifted, DECRYPT_ADD), ShrL(seed1, 11)), MASK32),
               seed2 |-> AndL(AddL(sumB, U64(3)), MASK32),
               value |-> value,
               overflow |-> \/ AddOverflows(seed2, entry)
                            \/ AddOverflows(seed1, s2a)
                            \/ AddOverflows(shifted, DECRYPT_ADD)
                            \/ AddOverflows(value, s2a)
                            \/ AddOverflows(AddL(value, s2a), ShlL(s2a, 5))
                            \/ AddOverflows(sumB, U64(3))] :
              sumB \in {AddL(AddL(value, s2a), ShlL(s2a, 5))}}) :
            value \in {AndL(XorL(word, AddL(seed1, s2a)), MASK32)}}) :
          s2a \in {AndL(AddL(seed2, entry), MASK32)}})

\* the loop of decrypt from word n on. overflow_checks is the build profile:
\* with it an u64 addition whose exact sum leaves 64 bits panics, without it
\* the sum wraps
RECURSIVE decrypt_loop(_, _, _, _, _, _)
decrypt_loop(data, n, seed1, seed2, result, overflow_checks) ==
    IF n >= Len(data) \div 4 THEN [kind |-> "Ok", bytes |-> result]
    ELSE Only({
           IF overflow_checks /\ st.overflow
           THEN [kind |-> "Panic", bytes |-> <<>>]
           ELSE Only({decrypt_loop(data, n + 1, st.seed1, st.seed2, written,
                                   overflow_checks) :
                         written \in {WriteU32LE(result, 4 * n, st.value)}}) :
           st \in {decrypt_step(ReadU32LE(data, 4 * n), seed1, seed2)}})

\* decrypt(data, key): result starts as vec![0u8; data.len()]
decrypt(data, key, overflow_checks) ==
    decrypt_loop(data, 0, AsU64(key), SEED2_INIT,
                 [k \in 1..Len(data) |-> 0], overflow_checks)

\* ------------------------------------------------------------------------
\* State
\* ------------------------------------------------------------------------
VARIABLES
    \* once_cell::sync::Lazy<Vec<u32>> holding ENCRYPTION_TABLE
    lazy_state,     \* "incomplete" | "running" | "complete"
    lazy_value,     \* <<>> until the cell is complete, then the table
    \* locals of the initialising closure (mpq.rs:44-62)
    b_table, b_seed, b_i, b_index, b_n,
    \* threads that dereference the table through hash() or decrypt()
    t_pc, t_op, t_seen, t_calls,
    \* history: closure runs started, largest seed * 125 + 3 computed
    builds, b_max

VARIABLES
    \* a call of hash and a second call on a respelling of the same name
    h_pc,           \* "start" | "hashed" | "compared"
    h_name, h_kind, h_result,
    h_other, h_change, h_other_result

VARIABLES
    \* a call of decrypt
    d_pc,           \* "start" | "done"
    d_data, d_key,
    d_checks,       \* whether the build has overflow checks
    d_result

VARIABLES
    \* the archive file on disk and one MPQFile opened on it
    file,
    mpq_header,         \* self.header: NONE or Some(the parsed FileHeader)
    mpq_hash_table,     \* self.hash_table: NONE or Some("loaded")
    mpq_block_table,    \* self.block_table: NONE or Some("loaded")
    load_result,        \* result of the last load(): "none" before the first
    load_calls,         \* calls of load() so far
    ext_reads           \* extended header fields read by the last load()

VARIABLES
    \* an archive collection (spec 4.4)
    coll_archives,      \* the ordered archives, each given by its listfile
    coll_pc,            \* "loading" | "ready"
    coll_ai, coll_ni,   \* archive and listfile line that load adds next
    coll_map,           \* normalized name -> [archive, name]
    coll_read           \* the last read: <<name, result>>

VARIABLES
    \* the asset facade's cache (spec 4.7, 5)
    cache,              \* name -> NONE or Some(artifact)
    c_lock,             \* name -> 0 when free, else the holding thread
    c_pc,               \* thread -> "idle" | "acquire" | "locked" | "decode"
    c_req,              \* thread -> the name it requests (0 when idle)
    c_got,              \* thread -> <<>> or [name, epoch, artifact] returned last
    c_requests,         \* thread -> requests completed
    c_decodes,          \* name -> decodes stored since the name was last evicted
    c_epoch,            \* name -> evictions so far
    c_next              \* the next fresh artifact

VARIABLES
    \* one run of M2Asset::new and what the asset store shows of it
    m2_model,           \* [views, textures, materials]: the header field, the
                        \* texture files and model.materials.len()
    m2_skins,           \* each skin file: missing, corrupt, or what it parses to
    m2_pc,              \* "textures" | "skins" | "done"
    m2_ti, m2_si,       \* loop positions
    texture_handles, skin_handles, mesh_handles, material_handles,
    m2_result,          \* NONE while running, then the Result returned or the
                        \* panic that ended the load
    m2_stored           \* Assets<M2Asset> entry of this load: NONE or Some(asset)

VARIABLES
    \* one call of MPQFile::read_file on a loaded archive
    r_archive,          \* [sector_shift, entry, block]: header, hash and block table
    r_name,             \* the filename asked for
    r_checks,           \* whether the build has overflow checks
    r_result            \* NONE, then Some(what read_file returned and did)

VARIABLES
    \* the skin file names of one model, by each derivation in the code
    n_path,             \* the model's path, source and label included
    n_views,            \* the header's skin count
    n_from_asset,       \* the paths M2Asset::new has given to read_asset_bytes
    n_asset_pc,         \* its skin loop: "loop" | "await" | "done" | "failed" |
                        \* "panicked"
    n_skin_files,       \* NONE, then Some(what M2Old::skin_files returned)
    n_mpq,              \* the archive of load_from_mpq: how the model file and
                        \* each skin file read and parse
    n_load_from_mpq     \* NONE, then Some(the outcome of load_from_mpq and the
                        \* skin names it gave to read_file)

VARIABLES
    \* one model file and skin turned into meshes by one pipeline
    g_vertices,         \* the vertex array of the file: [position, normal]
    g_skin,             \* the parsed skin: [indices, triangles, submeshes]
    g_pipeline,         \* which functions build the mesh
    g_stage,            \* "file" | "parsed" | "meshed"
    g_model,            \* the vertices held after deserialization
    g_meshes            \* the emitted meshes: [positions, normals, indices]

VARIABLES
    \* one call of m2::loader::load
    p_buffer,           \* Some(raw_data), the bytes of the file
    p_result            \* NONE, then Some(what load returned)

VARIABLES
    \* one call of blp_to_image
    i_blp,              \* the BlpImage
    i_result            \* NONE, then Some(what blp_to_image returned)

VARIABLES
    \* one call of MPQFile::get_file_list
    l_read,             \* what read_file("(listfile)") returns: NONE for an error
    l_result            \* NONE, then Some(what get_file_list returned)

VARIABLES
    \* M2Asset::new: the texture handles and the materials of one skin
    k_textures,         \* model.textures: the filename of each, "" when empty
    k_combos,           \* model.texture_combos
    k_materials,        \* model.materials.len()
    k_submeshes,        \* skin.submeshes.len()
    k_units,            \* skin.extra_array: the texture units
    k_pc,               \* "idle", "textures", "submeshes", "units", "done", "panic"
    k_ti,               \* textures visited
    k_ui,               \* texture units visited
    k_handles,          \* texture_handles: the texture index labelling each
    k_meshes,           \* submeshes: the material key of each
    k_map               \* material_map: <<key, material>> in insertion order

VARIABLES
    \* load() and read_file() calls on one MPQFile (with the load variables)
    life_read,          \* NONE, then Some of the last read_file: its result and
                        \* whether a load() had returned Ok before it
    life_ok,            \* a load() has returned Ok
    life_calls          \* calls made so far

VARIABLES
    \* the model viewer (model_viewer/src/main.rs)
    v_selected,         \* SelectedModel.path, "" when nothing is selected
    v_m2,               \* M2Component.m2: NONE or Some(path of the handle)
    v_entity,           \* M2Component.entity: NONE or Some(id)
    v_world,            \* the model entities alive: [id, model]
    v_assets,           \* Assets<M2Asset>: [path, asset] of each loaded model
    v_app,              \* "running", or "panicked" once a system has panicked
    v_spawned,          \* entities spawned so far
    v_clicks            \* row clicks so far

cipherVars == <<lazy_state, lazy_value, b_table, b_seed, b_i, b_index, b_n,
                t_pc, t_op, t_seen, t_calls, builds, b_max>>
hashVars == <<h_pc, h_name, h_kind, h_result, h_other, h_change, h_other_result>>
decryptVars == <<d_pc, d_data, d_key, d_checks, d_result>>

loadVars == <<file, mpq_header, mpq_hash_table, mpq_block_table, load_result,
              load_calls, ext_reads>>
collVars == <<coll_archives, coll_pc, coll_ai, coll_ni, coll_map, coll_read>>

cacheVars == <<cache, c_lock, c_pc, c_req, c_got, c_requests, c_decodes, c_epoch,
               c_next>>
m2Vars == <<m2_model, m2_skins, m2_pc, m2_ti, m2_si, texture_handles, skin_handles,
            mesh_handles, material_handles, m2_result, m2_stored>>

readVars == <<r_archive, r_name, r_checks, r_result>>
namesVars == <<n_path, n_views, n_from_asset, n_asset_pc, n_skin_files, n_mpq,
              n_load_from_mpq>>
meshVars == <<g_vertices, g_skin, g_pipeline, g_stage, g_model, g_meshes>>
parseVars == <<p_buffer, p_result>>
blpVars == <<i_blp, i_result>>
listVars == <<l_read, l_result>>
matVars == <<k_textures, k_combos, k_materials, k_submeshes, k_units, k_pc, k_ti, k_ui,
            k_handles, k_meshes, k_map>>
lifeVars == <<life_read, life_ok, life_calls>>
viewVars == <<v_selected, v_m2, v_entity, v_world, v_assets, v_app, v_spawned,
             v_clicks>>
lateVars == <<listVars, matVars, lifeVars, viewVars>>
mpqVars == <<cipherVars, hashVars, decryptVars, loadVars, collVars, cacheVars>>

vars == <<cipherVars, hashVars, decryptVars, loadVars, collVars, cacheVars, m2Vars,
          readVars, namesVars, meshVars, parseVars, blpVars, lateVars>>

notCipher == <<hashVars, decryptVars, loadVars, collVars, cacheVars, m2Vars,
    readVars, namesVars, meshVars, parseVars, blpVars, lateVars>>
notHash == <<cipherVars, decryptVars, loadVars, collVars, cacheVars, m2Vars,
    readVars, namesVars, meshVars, parseVars, blpVars, lateVars>>
notDecrypt == <<cipherVars, hashVars, loadVars, collVars, cacheVars, m2Vars,
    readVars, namesVars, meshVars, parseVars, blpVars, lateVars>>
notLoad == <<cipherVars, hashVars, decryptVars, collVars, cacheVars, m2Vars,
    readVars, namesVars, meshVars, parseVars, blpVars, lateVars>>
notColl == <<cipherVars, hashVars, decryptVars, loadVars, cacheVars, m2Vars,
    readVars, namesVars, meshVars, parseVars, blpVars, lateVars>>
notCache == <<cipherVars, hashVars, decryptVars, loadVars, collVars, m2Vars,
    readVars, namesVars, meshVars, parseVars, blpVars, lateVars>>
notM2 == <<cipherVars, hashVars, decryptVars, loadVars, collVars, cacheVars,
    readVars, namesVars, meshVars, parseVars, blpVars, lateVars>>
notRead == <<mpqVars, m2Vars, namesVars, meshVars, parseVars, blpVars, lateVars>>
notNames == <<mpqVars, m2Vars, readVars, meshVars, parseVars, blpVars, lateVars>>
notMesh == <<mpqVars, m2Vars, readVars, namesVars, parseVars, blpVars, lateVars>>
notParse == <<mpqVars, m2Vars, readVars, namesVars, meshVars, blpVars, lateVars>>
notBlp == <<mpqVars, m2Vars, readVars, namesVars, meshVars, parseVars, lateVars>>
earlyVars == <<mpqVars, m2Vars, readVars, namesVars, meshVars, parseVars, blpVars>>
notList == <<earlyVars, matVars, lifeVars, viewVars>>
notMat == <<earlyVars, listVars, lifeVars, viewVars>>
notLife == <<cipherVars, hashVars, decryptVars, collVars, cacheVars, m2Vars, readVars,
             namesVars, meshVars, parseVars, blpVars, listVars, matVars, viewVars>>
notView == <<earlyVars, listVars, matVars, lifeVars>>

\* Option<T>: None is the empty sequence, Some(v) the sequence of v alone
NONE == <<>>
Some(v) == <<v>>
IsSome(o) == o # <<>>

\* ------------------------------------------------------------------------
\* Bounds
\* ------------------------------------------------------------------------
NumThreads == 2
MaxCalls == 2
MaxNameLen == 2
MaxDataLen == 5
MaxFormatVersion == 3
MaxLoads == 2
MaxArchives == 3
NumCacheThreads == 2
NumCacheNames == 2
MaxRequests == 2
MaxEvictions == 1
MaxViews == 2
MaxTextures == 2
MaxSectorShift == 1
MaxSkinProfiles == 11
MaxVertices == 3
MaxMips == 2
MaxListLen == 4
MaxUnits == 2
MaxLifeCalls == 3
MaxSpawns == 3
MaxClicks == 4

Threads == 1..NumThreads
CacheThreads == 1..NumCacheThreads
CacheNames == 1..NumCacheNames

\* ------------------------------------------------------------------------
\* mpq.rs:43-65  Lazy::new(|| { ... }) and its first dereference
\* ------------------------------------------------------------------------
CipherIdle ==
    /\ lazy_state = "incomplete"
    /\ lazy_value = <<>>
    /\ b_table = <<>>
    /\ b_seed = 0
    /\ b_i = 0
    /\ b_index = 0
    /\ b_n = 0
    /\ t_pc = [t \in Threads |-> "idle"]
    /\ t_op = [t \in Threads |-> "none"]
    /\ t_seen = [t \in Threads |-> <<>>]
    /\ t_calls = [t \in Threads |-> 0]
    /\ builds = 0
    /\ b_max = 0

\* indices of the table a caller reads (hash: (hash_type << 8) + ch,
\* decrypt: 0x400 + (seed1 & 0xFF)); the three of the repository's test
ReadIndices == {65, 806, 1279}

\* a thread enters hash() or decrypt() and reaches the table dereference
CallTableUser(t) ==
    /\ t_pc[t] = "idle"
    /\ t_calls[t] < MaxCalls
    /\ \E op \in {"hash", "decrypt"} : t_op' = [t_op EXCEPT ![t] = op]
    /\ t_pc' = [t_pc EXCEPT ![t] = "force"]
    /\ UNCHANGED <<lazy_state, lazy_value, b_table, b_seed, b_i, b_index, b_n,
                   t_seen, t_calls, builds, b_max>>
    /\ UNCHANGED notCipher

\* a cell that lets a caller start the closure whenever it is not complete
CanStartInitUnlessComplete == lazy_state # "complete"

\* the compare-and-swap of the cell from incomplete to running succeeds
CanStartInit == lazy_state = "incomplete"

\* Lazy::force: return the value, become the initialiser, or wait for it
LazyForce(t) ==
    /\ t_pc[t] = "force"
    /\ IF lazy_state = "complete"
       THEN /\ t_pc' = [t_pc EXCEPT ![t] = "read"]
            /\ UNCHANGED <<lazy_state, b_table, b_seed, b_i, b_index, b_n, builds>>
       ELSE IF CanStartInit
       THEN /\ lazy_state' = "running"
            /\ builds' = builds + 1
            /\ b_seed' = TABLE_SEED_INIT
            /\ b_table' = [k \in 1..(TABLE_OUTER * TABLE_INNER) |-> <<0, 0>>]
            /\ b_i' = 0
            /\ b_index' = 0
            /\ b_n' = 0
            /\ t_pc' = [t_pc EXCEPT ![t] = "init"]
       ELSE /\ t_pc' = [t_pc EXCEPT ![t] = "wait"]
            /\ UNCHANGED <<lazy_state, b_table, b_seed, b_i, b_index, b_n, builds>>
    /\ UNCHANGED <<lazy_value, t_op, t_seen, t_calls, b_max>>
    /\ UNCHANGED notCipher

\* one pass of `for _ in 0..5`, entering `for i in 0..256` when needed
BuildStep(t) ==
    /\ t_pc[t] = "init"
    /\ b_i < TABLE_OUTER
    /\ LET index == IF b_n = 0 THEN b_i ELSE b_index
           e == TableEntry(b_seed)
           last == (b_n + 1 = TABLE_INNER)
       IN  /\ b_table' = [b_table EXCEPT ![index + 1] = e.value]
           /\ b_seed' = e.seed
           /\ b_index' = index + TABLE_STRIDE
           /\ b_n' = IF last THEN 0 ELSE b_n + 1
           /\ b_i' = IF last THEN b_i + 1 ELSE b_i
           /\ b_max' = LET m1 == b_seed * 125 + 3
                           m2 == NextSeed(b_seed) * 125 + 3
                           m == IF m1 > m2 THEN m1 ELSE m2
                       IN  IF m > b_max THEN m ELSE b_max
    /\ UNCHANGED <<lazy_state, lazy_value, t_pc, t_op, t_seen, t_calls, builds>>
    /\ UNCHANGED notCipher

\* the closure returns `table`; the cell stores it and becomes complete
BuildFinish(t) ==
    /\ t_pc[t] = "init"
    /\ b_i = TABLE_OUTER
    /\ lazy_value' = b_table
    /\ lazy_state' = "complete"
    /\ b_table' = <<>>
    /\ t_pc' = [t_pc EXCEPT ![t] = "read"]
    /\ UNCHANGED <<b_seed, b_i, b_index, b_n, t_op, t_seen, t_calls, builds, b_max>>
    /\ UNCHANGED notCipher

\* a waiter is released once the cell is complete
LazyWait(t) ==
    /\ t_pc[t] = "wait"
    /\ lazy_state = "complete"
    /\ t_pc' = [t_pc EXCEPT ![t] = "read"]
    /\ UNCHANGED <<lazy_state, lazy_value, b_table, b_seed, b_i, b_index, b_n,
                   t_op, t_seen, t_calls, builds, b_max>>
    /\ UNCHANGED notCipher

\* ENCRYPTION_TABLE[index] by shared reference: the cell is only read
TableRead(t) ==
    /\ t_pc[t] = "read"
    /\ \E index \in ReadIndices :
          t_seen' = [t_seen EXCEPT ![t] = <<index, lazy_value[index + 1]>>]
    /\ t_calls' = [t_calls EXCEPT ![t] = @ + 1]
    /\ t_pc' = [t_pc EXCEPT ![t] = "idle"]
    /\ UNCHANGED <<lazy_state, lazy_value, b_table, b_seed, b_i, b_index, b_n,
                   t_op, builds, b_max>>
    /\ UNCHANGED notCipher

HashIdle ==
    /\ h_pc = "idle"
    /\ h_name = <<>>
    /\ h_kind = 0
    /\ h_result = <<>>
    /\ h_other = <<>>
    /\ h_change = "none"
    /\ h_other_result = <<>>

DecryptIdle ==
    /\ d_pc = "idle"
    /\ d_data = <<>>
    /\ d_key = <<0, 0>>
    /\ d_checks = FALSE
    /\ d_result = <<>>

LoadIdle ==
    /\ file = NONE
    /\ mpq_header = NONE
    /\ mpq_hash_table = NONE
    /\ mpq_block_table = NONE
    /\ load_result = "none"
    /\ load_calls = 0
    /\ ext_reads = 0

CollIdle ==
    /\ coll_archives = <<>>
    /\ coll_pc = "idle"
    /\ coll_ai = 0
    /\ coll_ni = 0
    /\ coll_map = <<>>
    /\ coll_read = <<>>

CacheIdle ==
    /\ cache = <<>>
    /\ c_lock = <<>>
    /\ c_pc = <<>>
    /\ c_req = <<>>
    /\ c_got = <<>>
    /\ c_requests = <<>>
    /\ c_decodes = <<>>
    /\ c_epoch = <<>>
    /\ c_next = 0

M2Idle ==
    /\ m2_model = NONE
    /\ m2_skins = <<>>
    /\ m2_pc = "idle"
    /\ m2_ti = 0
    /\ m2_si = 0
    /\ texture_handles = <<>>
    /\ skin_handles = <<>>
    /\ mesh_handles = <<>>
    /\ material_handles = <<>>
    /\ m2_result = NONE
    /\ m2_stored = NONE

ReadIdle ==
    /\ r_archive = NONE
    /\ r_name = <<>>
    /\ r_checks = FALSE
    /\ r_result = NONE

NamesIdle ==
    /\ n_path = <<>>
    /\ n_views = 0
    /\ n_from_asset = <<>>
    /\ n_asset_pc = "idle"
    /\ n_skin_files = NONE
    /\ n_mpq = <<>>
    /\ n_load_from_mpq = NONE

MeshIdle ==
    /\ g_vertices = <<>>
    /\ g_skin = NONE
    /\ g_pipeline = "none"
    /\ g_stage = "idle"
    /\ g_model = <<>>
    /\ g_meshes = <<>>

ParseIdle ==
    /\ p_buffer = NONE
    /\ p_result = NONE

BlpIdle ==
    /\ i_blp = NONE
    /\ i_result = NONE

ListIdle ==
    /\ l_read = NONE
    /\ l_result = NONE

MatIdle ==
    /\ k_textures = <<>> /\ k_combos = <<>> /\ k_materials = 0 /\ k_submeshes = 0
    /\ k_units = <<>> /\ k_pc = "idle" /\ k_ti = 0 /\ k_ui = 0
    /\ k_handles = <<>> /\ k_meshes = <<>> /\ k_map = <<>>

LifeIdle ==
    /\ life_read = NONE /\ life_ok = FALSE /\ life_calls = 0

ViewIdle ==
    /\ v_selected = "" /\ v_m2 = NONE /\ v_entity = NONE /\ v_world = {}
    /\ v_assets = {} /\ v_app = "idle" /\ v_spawned = 0 /\ v_clicks = 0

LateIdle == ListIdle /\ MatIdle /\ LifeIdle /\ ViewIdle

MpqIdle ==
    CipherIdle /\ HashIdle /\ DecryptIdle /\ LoadIdle /\ CollIdle /\ CacheIdle

EarlyIdle ==
    MpqIdle /\ M2Idle /\ ReadIdle /\ NamesIdle /\ MeshIdle /\ ParseIdle /\ BlpIdle

InitCipher ==
    /\ CipherIdle /\ HashIdle /\ DecryptIdle /\ LoadIdle /\ CollIdle /\ CacheIdle /\ M2Idle
    /\ ReadIdle /\ NamesIdle /\ MeshIdle /\ ParseIdle /\ BlpIdle /\ LateIdle

NextCipher ==
    \E t \in Threads :
        \/ CallTableUser(t)
        \/ LazyForce(t)
        \/ BuildStep(t)
        \/ BuildFinish(t)
        \/ LazyWait(t)
        \/ TableRead(t)

SpecCipher == InitCipher /\ [][NextCipher]_vars

\* ------------------------------------------------------------------------
\* Calls of hash (mpq.rs:134-148)
\* ------------------------------------------------------------------------
\* "(hash table)", "(block table)", "THE QUICK BROWN FOX", "foo.txt"
STR_HASH_TABLE == <<40, 104, 97, 115, 104, 32, 116, 97, 98, 108, 101, 41>>
STR_BLOCK_TABLE == <<40, 98, 108, 111, 99, 107, 32, 116, 97, 98, 108, 101, 41>>
STR_QUICK_FOX == <<84, 72, 69, 32, 81, 85, 73, 67, 75, 32, 66, 82, 79, 87, 78,
                   32, 70, 79, 88>>
STR_FOO_TXT == <<102, 111, 111, 46, 116, 120, 116>>
\* names outside ASCII: "\u00e9", "\u00df", "\u00ff", "stra\u00dfe.m2"
STR_E_ACUTE == <<195, 169>>
STR_SHARP_S == <<195, 159>>
STR_Y_DIAERESIS == <<195, 191>>
STR_STRASSE_M2 == <<115, 116, 114, 97, 195, 159, 101, 46, 109, 50>>
\* U+0101 (a with macron), U+1E96 (h with line below), U+10428 (Deseret)
STR_A_MACRON == <<196, 129>>
STR_H_LINE_BELOW == <<225, 186, 150>>
STR_DESERET_LONG_I == <<240, 144, 144, 168>>

\* 'a', 'B', '/', '\', '.'
NameBytes == {97, 66, 47, 92, 46}

SeqsUpTo(S, n) == UNION {[1..k -> S] : k \in 0..n}

HashNames ==
    SeqsUpTo(NameBytes, MaxNameLen)
        \cup {STR_HASH_TABLE, STR_BLOCK_TABLE, STR_QUICK_FOX, STR_FOO_TXT,
              STR_E_ACUTE, STR_SHARP_S, STR_Y_DIAERESIS, STR_STRASSE_M2,
              STR_A_MACRON, STR_H_LINE_BELOW, STR_DESERET_LONG_I}

IsLower(c) == c >= 97 /\ c <= 122
IsUpper(c) == c >= 65 /\ c <= 90
IsLetter(c) == IsLower(c) \/ IsUpper(c)
IsSeparator(c) == c = 47 \/ c = 92

\* c with the other case; c with the other path separator
FlipCase(c) == IF IsLower(c) THEN c - 32 ELSE IF IsUpper(c) THEN c + 32 ELSE c
FlipSeparator(c) == IF c = 47 THEN 92 ELSE IF c = 92 THEN 47 ELSE c

\* name with the letter / separator at position i respelled
WithCaseFlipped(name, i) == [name EXCEPT ![i] = FlipCase(name[i])]
WithSeparatorFlipped(name, i) == [name EXCEPT ![i] = FlipSeparator(name[i])]

InitHash ==
    /\ h_pc = "start"
    /\ h_name \in HashNames
    /\ h_kind \in {HASH_TABLE_OFFSET, HASH_A, HASH_B, HASH_TABLE}
    /\ h_result = <<>>
    /\ h_other = <<>>
    /\ h_change = "none"
    /\ h_other_result = <<>>
    /\ CipherIdle /\ DecryptIdle /\ LoadIdle /\ CollIdle /\ CacheIdle /\ M2Idle
    /\ ReadIdle /\ NamesIdle /\ MeshIdle /\ ParseIdle /\ BlpIdle /\ LateIdle

Hash ==
    /\ h_pc = "start"
    /\ h_result' = hash(h_name, h_kind)
    /\ h_pc' = "hashed"
    /\ UNCHANGED <<h_name, h_kind, h_other, h_change, h_other_result>>
    /\ UNCHANGED notHash

\* the same name and kind hashed again
HashAgain ==
    /\ h_pc = "hashed"
    /\ h_other' = h_name
    /\ h_change' = "same"
    /\ h_other_result' = hash(h_name, h_kind)
    /\ h_pc' = "compared"
    /\ UNCHANGED <<h_name, h_kind, h_result>>
    /\ UNCHANGED notHash

\* the name with one ASCII letter in the other case
HashCaseVariant ==
    /\ h_pc = "hashed"
    /\ \E i \in DOMAIN h_name :
          /\ IsLetter(h_name[i])
          /\ h_other' = WithCaseFlipped(h_name, i)
          /\ h_other_result' = hash(WithCaseFlipped(h_name, i), h_kind)
    /\ h_change' = "case"
    /\ h_pc' = "compared"
    /\ UNCHANGED <<h_name, h_kind, h_result>>
    /\ UNCHANGED notHash

\* the name with one path separator replaced by the other
HashSeparatorVariant ==
    /\ h_pc = "hashed"
    /\ \E i \in DOMAIN h_name :
          /\ IsSeparator(h_name[i])
          /\ h_other' = WithSeparatorFlipped(h_name, i)
          /\ h_other_result' = hash(WithSeparatorFlipped(h_name, i), h_kind)
    /\ h_change' = "separator"
    /\ h_pc' = "compared"
    /\ UNCHANGED <<h_name, h_kind, h_result>>
    /\ UNCHANGED notHash

NextHash == Hash \/ HashAgain \/ HashCaseVariant \/ HashSeparatorVariant

SpecHash == InitHash /\ [][NextHash]_vars

\* ------------------------------------------------------------------------
\* Calls of decrypt (mpq.rs:67-85)
\* ------------------------------------------------------------------------
\* the input and the key of tests::test_decrypt_works
TEST_DECRYPT_DATA == <<51, 120, 177, 93, 195, 125, 252, 226, 88, 231, 123, 79,
                       46, 102, 8, 227>>
KEY_HASH_TABLE == <<14192, 50095>>      \* 0xC3AF3770 = 3283040112

DataBytes == {0, 51, 255}

DecryptInputs == SeqsUpTo(DataBytes, MaxDataLen) \cup {TEST_DECRYPT_DATA}

\* 0xC3AF3770, 0, 135, 136, 0xFFFFFFFF, 0xEC83B3A3 = hash("(block table)")
DecryptKeys == {KEY_HASH_TABLE, <<0, 0>>, <<135, 0>>, <<136, 0>>,
                <<65535, 65535>>, <<45987, 60547>>}

InitDecrypt ==
    /\ d_pc = "start"
    /\ d_data \in DecryptInputs
    /\ d_key \in DecryptKeys
    /\ d_checks = FALSE
    /\ d_result = <<>>
    /\ CipherIdle /\ HashIdle /\ LoadIdle /\ CollIdle /\ CacheIdle /\ M2Idle
    /\ ReadIdle /\ NamesIdle /\ MeshIdle /\ ParseIdle /\ BlpIdle /\ LateIdle

Decrypt ==
    /\ d_pc = "start"
    /\ \E overflow_checks \in BOOLEAN :
          /\ d_checks' = overflow_checks
          /\ d_result' = decrypt(d_data, d_key, overflow_checks)
    /\ d_pc' = "done"
    /\ UNCHANGED <<d_data, d_key>>
    /\ UNCHANGED notDecrypt

NextDecrypt == Decrypt

SpecDecrypt == InitDecrypt /\ [][NextDecrypt]_vars

\* ------------------------------------------------------------------------
\* MPQFile::load (mpq.rs:241-278)
\* ------------------------------------------------------------------------
MAGIC_STRING == <<77, 80, 81, 26>>      \* b"MPQ\x1a"

\* first four bytes of a file: the magic, "MPQ\x1b", "MPK\x1a"
Magics == {MAGIC_STRING, <<77, 80, 81, 27>>, <<77, 80, 75, 26>>}

\* how much of the file can be read from its start:
\*   "short" less than the 4 magic bytes, "magic" less than the 32 bytes of
\*   magic and fixed header, "header" less than the 44 bytes that include the
\*   extended fields, "full" at least 44
FileLengths == {"short", "magic", "header", "full"}

\* hash_allocated / block_allocated: the buffer of entries * 16 bytes that
\* the header announces is allocated (vec![0u8; ..], mpq.rs:287, 313); when
\* the allocation fails the process aborts
\* hash_readable / block_readable: read_exact_at of the table succeeds
Files ==
    [exists : BOOLEAN, magic : Magics, length : FileLengths,
     format_version : 0..MaxFormatVersion,
     hash_allocated : BOOLEAN, hash_readable : BOOLEAN,
     block_allocated : BOOLEAN, block_readable : BOOLEAN]

\* the header.format_version == 1 test that guards the extended fields
ReadsExtended(format_version) == format_version = 1

\* load(&mut self) on MPQFile self = [header, hash_table, block_table] over
\* file f: the new self, the result ("Abort" when the process aborts) and the
\* extended fields read
load(self, f) ==
    IF IsSome(self.header)
    THEN [self |-> self, result |-> "Ok", ext |-> 0]
    ELSE IF ~f.exists \/ f.length = "short"
    THEN [self |-> self, result |-> "Io", ext |-> 0]
    ELSE IF f.magic # MAGIC_STRING
    THEN [self |-> self, result |-> "InvalidFile", ext |-> 0]
    ELSE IF f.length = "magic"
    THEN [self |-> self, result |-> "Io", ext |-> 0]
    ELSE IF ReadsExtended(f.format_version) /\ f.length = "header"
    THEN [self |-> self, result |-> "Io", ext |-> 0]
    ELSE LET header == Some([format_version |-> f.format_version,
                             extended |-> ReadsExtended(f.format_version)])
             ext == IF ReadsExtended(f.format_version) THEN 3 ELSE 0
         IN  IF ~f.hash_allocated
             THEN [self |-> [self EXCEPT !.header = header],
                   result |-> "Abort", ext |-> ext]
             ELSE IF ~f.hash_readable
             THEN [self |-> [self EXCEPT !.header = header],
                   result |-> "Io", ext |-> ext]
             ELSE IF ~f.block_allocated
             THEN [self |-> [self EXCEPT !.header = header, !.hash_table = Some("loaded")],
                   result |-> "Abort", ext |-> ext]
             ELSE IF ~f.block_readable
             THEN [self |-> [self EXCEPT !.header = header, !.hash_table = Some("loaded")],
                   result |-> "Io", ext |-> ext]
             ELSE [self |-> [header |-> header, hash_table |-> Some("loaded"),
                             block_table |-> Some("loaded")],
                   result |-> "Ok", ext |-> ext]

InitLoad ==
    /\ file \in Files
    /\ mpq_header = NONE
    /\ mpq_hash_table = NONE
    /\ mpq_block_table = NONE
    /\ load_result = "none"
    /\ load_calls = 0
    /\ ext_reads = 0
    /\ CipherIdle /\ HashIdle /\ DecryptIdle /\ CollIdle /\ CacheIdle /\ M2Idle
    /\ ReadIdle /\ NamesIdle /\ MeshIdle /\ ParseIdle /\ BlpIdle /\ LateIdle

Load ==
    /\ load_calls < MaxLoads
    /\ load_result # "Abort"
    /\ LET r == load([header |-> mpq_header, hash_table |-> mpq_hash_table,
                      block_table |-> mpq_block_table], file)
       IN  /\ mpq_header' = r.self.header
           /\ mpq_hash_table' = r.self.hash_table
           /\ mpq_block_table' = r.self.block_table
           /\ load_result' = r.result
           /\ ext_reads' = r.ext
    /\ load_calls' = load_calls + 1
    /\ UNCHANGED file
    /\ UNCHANGED notLoad

NextLoad == Load

SpecLoad == InitLoad /\ [][NextLoad]_vars

\* ------------------------------------------------------------------------
\* Archive collection (spec 4.4): load in archive order, read by name
\* ------------------------------------------------------------------------
\* "x", "X", "y", "z"
NAME_X == <<120>>
NAME_XU == <<88>>
NAME_Y == <<121>>
NAME_Z == <<122>>

\* the listfiles an archive may have: its logical names in stored order
ListFiles == {<<>>, <<NAME_X>>, <<NAME_XU>>, <<NAME_Y>>, <<NAME_X, NAME_Y>>,
              <<NAME_Y, NAME_X>>, <<NAME_XU, NAME_Y>>}

ReadNames == {NAME_X, NAME_XU, NAME_Y, NAME_Z}

\* normalization: lowercase ASCII, forward slashes
LowerByte(c) == IF c >= 65 /\ c <= 90 THEN c + 32 ELSE c
Normalize(name) ==
    [i \in DOMAIN name |-> IF name[i] = 92 THEN 47 ELSE LowerByte(name[i])]

\* the bytes archive a stores under a name of its listfile: archive 1 holds
\* [1], archive 2 holds [2], ...
ArchiveBytes(a, name) == <<a>>

\* the map with key bound to value, replacing an earlier binding
MapPut(map, key, value) ==
    [k \in (DOMAIN map) \cup {key} |-> IF k = key THEN value ELSE map[k]]

\* adding a listfile line only when its normalized name is not mapped yet
CollInsertKeepFirst(map, a, name) ==
    IF Normalize(name) \in DOMAIN map THEN map
    ELSE MapPut(map, Normalize(name), [archive |-> a, name |-> name])

\* adding one listfile line of archive a to the name map
CollInsert(map, a, name) ==
    MapPut(map, Normalize(name), [archive |-> a, name |-> name])

InitColl ==
    /\ coll_archives \in UNION {[1..n -> ListFiles] : n \in 1..MaxArchives}
    /\ coll_pc = "loading"
    /\ coll_ai = 1
    /\ coll_ni = 1
    /\ coll_map = <<>>
    /\ coll_read = <<>>
    /\ CipherIdle /\ HashIdle /\ DecryptIdle /\ LoadIdle /\ CacheIdle /\ M2Idle
    /\ ReadIdle /\ NamesIdle /\ MeshIdle /\ ParseIdle /\ BlpIdle /\ LateIdle

\* load: the next line of the current archive's listfile enters the map
CollAddName ==
    /\ coll_pc = "loading"
    /\ coll_ai <= Len(coll_archives)
    /\ coll_ni <= Len(coll_archives[coll_ai])
    /\ coll_map' = CollInsert(coll_map, coll_ai, coll_archives[coll_ai][coll_ni])
    /\ coll_ni' = coll_ni + 1
    /\ UNCHANGED <<coll_archives, coll_pc, coll_ai, coll_read>>
    /\ UNCHANGED notColl

\* load: the current archive's listfile is exhausted
CollNextArchive ==
    /\ coll_pc = "loading"
    /\ coll_ai <= Len(coll_archives)
    /\ coll_ni > Len(coll_archives[coll_ai])
    /\ coll_ai' = coll_ai + 1
    /\ coll_ni' = 1
    /\ UNCHANGED <<coll_archives, coll_pc, coll_map, coll_read>>
    /\ UNCHANGED notColl

\* load returns the collection
CollLoaded ==
    /\ coll_pc = "loading"
    /\ coll_ai > Len(coll_archives)
    /\ coll_pc' = "ready"
    /\ UNCHANGED <<coll_archives, coll_ai, coll_ni, coll_map, coll_read>>
    /\ UNCHANGED notColl

\* read(name): normalize, forward to the mapped archive under the name as
\* stored in its listfile; NotFound when unmapped
CollReadResult(map, name) ==
    IF Normalize(name) \in DOMAIN map
    THEN [kind |-> "Ok",
          archive |-> map[Normalize(name)].archive,
          bytes |-> ArchiveBytes(map[Normalize(name)].archive,
                                 map[Normalize(name)].name)]
    ELSE [kind |-> "NotFound", archive |-> 0, bytes |-> <<>>]

CollRead ==
    /\ coll_pc = "ready"
    /\ \E name \in ReadNames :
          coll_read' = <<name, CollReadResult(coll_map, name)>>
    /\ UNCHANGED <<coll_archives, coll_pc, coll_ai, coll_ni, coll_map>>
    /\ UNCHANGED notColl

NextColl == CollAddName \/ CollNextArchive \/ CollLoaded \/ CollRead

SpecColl == InitColl /\ [][NextColl]_vars

\* ------------------------------------------------------------------------
\* Asset facade cache (spec 4.7, 5): one lock per name, evict on request
\* ------------------------------------------------------------------------
\* a lock that never excludes
LockFreeAlways(n) == TRUE

\* the lock of name n can be taken
LockFree(n) == c_lock[n] = 0

InitCache ==
    /\ cache = [n \in CacheNames |-> NONE]
    /\ c_lock = [n \in CacheNames |-> 0]
    /\ c_pc = [t \in CacheThreads |-> "idle"]
    /\ c_req = [t \in CacheThreads |-> 0]
    /\ c_got = [t \in CacheThreads |-> <<>>]
    /\ c_requests = [t \in CacheThreads |-> 0]
    /\ c_decodes = [n \in CacheNames |-> 0]
    /\ c_epoch = [n \in CacheNames |-> 0]
    /\ c_next = 1
    /\ CipherIdle /\ HashIdle /\ DecryptIdle /\ LoadIdle /\ CollIdle /\ M2Idle
    /\ ReadIdle /\ NamesIdle /\ MeshIdle /\ ParseIdle /\ BlpIdle /\ LateIdle

\* load_texture(name) / load_model(name) is called
CacheRequest(t) ==
    /\ c_pc[t] = "idle"
    /\ c_requests[t] < MaxRequests
    /\ \E n \in CacheNames : c_req' = [c_req EXCEPT ![t] = n]
    /\ c_pc' = [c_pc EXCEPT ![t] = "acquire"]
    /\ UNCHANGED <<cache, c_lock, c_got, c_requests, c_decodes, c_epoch, c_next>>
    /\ UNCHANGED notCache

\* the request takes the lock of its name
CacheAcquire(t) ==
    /\ c_pc[t] = "acquire"
    /\ LockFree(c_req[t])
    /\ c_lock' = [c_lock EXCEPT ![c_req[t]] = t]
    /\ c_pc' = [c_pc EXCEPT ![t] = "locked"]
    /\ UNCHANGED <<cache, c_req, c_got, c_requests, c_decodes, c_epoch, c_next>>
    /\ UNCHANGED notCache

\* the entry is there: the stored artifact is returned
CacheHit(t) ==
    /\ c_pc[t] = "locked"
    /\ IsSome(cache[c_req[t]])
    /\ c_got' = [c_got EXCEPT ![t] = [name |-> c_req[t], epoch |-> c_epoch[c_req[t]],
                                      artifact |-> cache[c_req[t]][1]]]
    /\ c_lock' = [c_lock EXCEPT ![c_req[t]] = 0]
    /\ c_pc' = [c_pc EXCEPT ![t] = "idle"]
    /\ c_requests' = [c_requests EXCEPT ![t] = @ + 1]
    /\ UNCHANGED <<cache, c_req, c_decodes, c_epoch, c_next>>
    /\ UNCHANGED notCache

\* no entry: the request starts to decode, holding the lock
CacheMiss(t) ==
    /\ c_pc[t] = "locked"
    /\ cache[c_req[t]] = NONE
    /\ c_pc' = [c_pc EXCEPT ![t] = "decode"]
    /\ UNCHANGED <<cache, c_lock, c_req, c_got, c_requests, c_decodes, c_epoch, c_next>>
    /\ UNCHANGED notCache

\* the decode completes: the artifact is stored and returned
CacheDecoded(t) ==
    /\ c_pc[t] = "decode"
    /\ cache' = [cache EXCEPT ![c_req[t]] = Some(c_next)]
    /\ c_decodes' = [c_decodes EXCEPT ![c_req[t]] = @ + 1]
    /\ c_next' = c_next + 1
    /\ c_got' = [c_got EXCEPT ![t] = [name |-> c_req[t], epoch |-> c_epoch[c_req[t]],
                                      artifact |-> c_next]]
    /\ c_lock' = [c_lock EXCEPT ![c_req[t]] = 0]
    /\ c_pc' = [c_pc EXCEPT ![t] = "idle"]
    /\ c_requests' = [c_requests EXCEPT ![t] = @ + 1]
    /\ UNCHANGED <<c_req, c_epoch>>
    /\ UNCHANGED notCache

\* the decode fails or the caller drops its reference: nothing is cached
\* (artifact 0 stands for the error returned)
CacheDecodeFailed(t) ==
    /\ c_pc[t] = "decode"
    /\ c_got' = [c_got EXCEPT ![t] = [name |-> c_req[t], epoch |-> c_epoch[c_req[t]],
                                      artifact |-> 0]]
    /\ c_lock' = [c_lock EXCEPT ![c_req[t]] = 0]
    /\ c_pc' = [c_pc EXCEPT ![t] = "idle"]
    /\ c_requests' = [c_requests EXCEPT ![t] = @ + 1]
    /\ UNCHANGED <<cache, c_req, c_decodes, c_epoch, c_next>>
    /\ UNCHANGED notCache

\* explicit eviction of a cached name
CacheEvict(n) ==
    /\ IsSome(cache[n])
    /\ LockFree(n)
    /\ c_epoch[n] < MaxEvictions
    /\ cache' = [cache EXCEPT ![n] = NONE]
    /\ c_decodes' = [c_decodes EXCEPT ![n] = 0]
    /\ c_epoch' = [c_epoch EXCEPT ![n] = @ + 1]
    /\ UNCHANGED <<c_lock, c_pc, c_req, c_got, c_requests, c_next>>
    /\ UNCHANGED notCache

NextCache ==
    \/ \E t \in CacheThreads :
          \/ CacheRequest(t)
          \/ CacheAcquire(t)
          \/ CacheHit(t)
          \/ CacheMiss(t)
          \/ CacheDecoded(t)
          \/ CacheDecodeFailed(t)
    \/ \E n \in CacheNames : CacheEvict(n)

SpecCache == InitCache /\ [][NextCache]_vars

\* ------------------------------------------------------------------------
\* M2Asset::new (m2.rs:151-307)
\* ------------------------------------------------------------------------
\* a texture of model.textures: its filename is empty, or reading and decoding
\* it succeeds, or read_asset_bytes / load_blp_from_buf / blp_to_image fails
TextureStatuses == {"empty", "ok", "missing", "badblp", "unsupported"}

\* a skin file: read_asset_bytes and OldSkin::parse succeed, or one fails
SkinStatuses == {"ok", "missing", "corrupt"}

\* what OldSkin::parse gives: skin.indices, skin.triangles, skin.submeshes and
\* the texture units of skin.extra_array
ParsedSkin(indices, triangles, submeshes, units) ==
    [status |-> "ok", indices |-> indices, triangles |-> triangles,
     submeshes |-> submeshes, units |-> units]
SkinSection(start, count) == [triangle_start |-> start, triangle_count |-> count]
TextureUnit(section, material, combo) ==
    [skin_section_index |-> section, material_index |-> material,
     texture_combo_index |-> combo]

\* the skin files of a load: the two that fail, a skin of one triangle with
\* one unit, with none, with a unit that names sub-mesh 1 or material 1, with
\* a sub-mesh longer than skin.triangles, with a triangle entry past skin.indices
SkinFiles ==
    {ParsedSkin(<<>>, <<>>, <<>>, <<>>)} \cup
    {[ParsedSkin(<<>>, <<>>, <<>>, <<>>) EXCEPT !.status = st] : st \in {"missing", "corrupt"}}
    \cup
    {ParsedSkin(<<0, 1, 2>>, <<0, 1, 2>>, <<SkinSection(0, 3)>>, units) :
        units \in {<<>>, <<TextureUnit(0, 0, 0)>>, <<TextureUnit(1, 0, 0)>>,
                   <<TextureUnit(0, 1, 0)>>,
                   <<TextureUnit(0, 0, 1), TextureUnit(0, 0, 1)>>}}
    \cup
    {ParsedSkin(<<0, 1, 2>>, triangles, <<SkinSection(0, 3)>>, <<TextureUnit(0, 0, 0)>>) :
        triangles \in {<<0, 1>>, <<0, 1, 3>>}}

\* model.header.num_skin_profiles: None, or Some(views)
ViewsFields == {NONE} \cup {Some(n) : n \in 0..MaxViews}

\* let num_skins = if let Some(n) = num_skin_profiles { n } else { 0 }
NumSkins(model) == IF IsSome(model.views) THEN model.views[1] ELSE 0

\* the `?` after the reads and decodes of texture i returns the error
TextureFails(status) == status \in {"missing", "badblp", "unsupported"}

\* the `?` after read_asset_bytes / OldSkin::parse of skin i returns the error
SkinFails(status) == status # "ok"

\* the sub-mesh loop (m2.rs:209-235) indexes skin.triangles or skin.indices
\* past its end
submesh_panics(skin) ==
    \E mi \in DOMAIN skin.submeshes :
        \E vi \in 0..(skin.submeshes[mi].triangle_count - 1) :
            LET t == skin.submeshes[mi].triangle_start + vi
            IN  \/ t >= Len(skin.triangles)
                \/ skin.triangles[t + 1] >= Len(skin.indices)

\* the texture-unit loop (m2.rs:237-290) from unit u on, on the material key
\* of each sub-mesh and the keys of material_map
RECURSIVE unit_loop(_, _, _, _, _)
unit_loop(units, u, materials, meshes, keys) ==
    IF u > Len(units)
    THEN [kind |-> "Ok", detail |-> "", meshes |-> meshes, keys |-> keys]
    ELSE
    LET unit == units[u]
        key == <<unit.material_index, unit.texture_combo_index>>
    IN  IF unit.skin_section_index >= Len(meshes)
        THEN [kind |-> "Panic", detail |-> "unwrap on None", meshes |-> <<>>, keys |-> {}]
        ELSE IF key \notin keys /\ unit.material_index >= materials
        THEN [kind |-> "Panic", detail |-> "index out of bounds", meshes |-> <<>>,
              keys |-> {}]
        ELSE unit_loop(units, u + 1, materials,
                       [meshes EXCEPT ![unit.skin_section_index + 1] = key],
                       keys \cup {key})

\* the body of the skin loop after the parse (m2.rs:207-290): the sub-meshes,
\* each with material (0, 0), then the texture units
build_skin(materials, skin) ==
    IF submesh_panics(skin)
    THEN [kind |-> "Panic", detail |-> "index out of bounds", meshes |-> <<>>, keys |-> {}]
    ELSE unit_loop(skin.units, 1, materials,
                   [mi \in DOMAIN skin.submeshes |-> <<0, 0>>], {})

InitM2 ==
    /\ m2_model \in [views : ViewsFields,
                     textures : SeqsUpTo(TextureStatuses, MaxTextures),
                     materials : 1..2]
    /\ m2_skins \in [1..NumSkins(m2_model) -> SkinFiles]
    /\ m2_pc = "textures"
    /\ m2_ti = 0
    /\ m2_si = 0
    /\ texture_handles = <<>>
    /\ skin_handles = <<>>
    /\ mesh_handles = <<>>
    /\ material_handles = <<>>
    /\ m2_result = NONE
    /\ m2_stored = NONE
    /\ CipherIdle /\ HashIdle /\ DecryptIdle /\ LoadIdle /\ CollIdle /\ CacheIdle
    /\ ReadIdle /\ NamesIdle /\ MeshIdle /\ ParseIdle /\ BlpIdle /\ LateIdle

\* a failing step that ends the load with what was built so far
M2ReturnPartial ==
    /\ m2_result' = Some([kind |-> "Ok",
                          asset |-> Some([skins |-> skin_handles,
                                          meshes |-> mesh_handles,
                                          textures |-> texture_handles,
                                          materials |-> material_handles]),
                          detail |-> ""])
    /\ m2_pc' = "done"
    /\ UNCHANGED <<texture_handles, skin_handles, mesh_handles, material_handles>>

\* the value of an early `return Err(..)`: every local is dropped
M2Fail ==
    /\ m2_result' = Some([kind |-> "Err", asset |-> NONE, detail |-> ""])
    /\ m2_pc' = "done"
    /\ texture_handles' = <<>>
    /\ skin_handles' = <<>>
    /\ mesh_handles' = <<>>
    /\ material_handles' = <<>>

\* an index past the end or an unwrap of None: the load ends without a
\* Result, every local dropped
M2Panic(detail) ==
    /\ m2_result' = Some([kind |-> "Panic", asset |-> NONE, detail |-> detail])
    /\ m2_pc' = "done"
    /\ texture_handles' = <<>>
    /\ skin_handles' = <<>>
    /\ mesh_handles' = <<>>
    /\ material_handles' = <<>>

\* one iteration of the loop over model.textures (m2.rs:162-182)
M2Texture ==
    /\ m2_pc = "textures"
    /\ m2_ti < Len(m2_model.textures)
    /\ LET status == m2_model.textures[m2_ti + 1]
       IN  IF status = "empty"
           THEN /\ m2_ti' = m2_ti + 1
                /\ UNCHANGED <<m2_pc, texture_handles, skin_handles, mesh_handles,
                               material_handles, m2_result>>
           ELSE IF TextureFails(status)
           THEN /\ M2Fail
                /\ UNCHANGED m2_ti
           ELSE /\ texture_handles' = Append(texture_handles, m2_ti)
                /\ m2_ti' = m2_ti + 1
                /\ UNCHANGED <<m2_pc, skin_handles, mesh_handles, material_handles,
                               m2_result>>
    /\ UNCHANGED <<m2_model, m2_skins, m2_si, m2_stored>>
    /\ UNCHANGED notM2

\* the texture loop ends; the vertex arrays are copied when num_skins > 0
M2TexturesDone ==
    /\ m2_pc = "textures"
    /\ m2_ti = Len(m2_model.textures)
    /\ m2_pc' = "skins"
    /\ UNCHANGED <<m2_model, m2_skins, m2_ti, m2_si, texture_handles, skin_handles,
                   mesh_handles, material_handles, m2_result, m2_stored>>
    /\ UNCHANGED notM2

\* one iteration of `for i in 0..num_skins` (m2.rs:198-297)
M2Skin ==
    /\ m2_pc = "skins"
    /\ m2_si < NumSkins(m2_model)
    /\ LET skin == m2_skins[m2_si + 1]
           built == build_skin(m2_model.materials, skin)
       IN  IF SkinFails(skin.status)
           THEN /\ M2Fail
                /\ UNCHANGED m2_si
           ELSE IF built.kind = "Panic"
           THEN /\ M2Panic(built.detail)
                /\ UNCHANGED m2_si
           ELSE /\ skin_handles' = Append(skin_handles, m2_si)
                /\ mesh_handles' = MapPut(mesh_handles, m2_si, built.meshes)
                /\ material_handles' = Append(material_handles, built.keys)
                /\ m2_si' = m2_si + 1
                /\ UNCHANGED <<m2_pc, texture_handles, m2_result>>
    /\ UNCHANGED <<m2_model, m2_skins, m2_ti, m2_stored>>
    /\ UNCHANGED notM2

\* Ok(Self { model, skins, meshes, textures, materials })
M2Return ==
    /\ m2_pc = "skins"
    /\ m2_si >= NumSkins(m2_model)
    /\ m2_result' = Some([kind |-> "Ok",
                          asset |-> Some([skins |-> skin_handles,
                                          meshes |-> mesh_handles,
                                          textures |-> texture_handles,
                                          materials |-> material_handles]),
                          detail |-> ""])
    /\ m2_pc' = "done"
    /\ UNCHANGED <<m2_model, m2_skins, m2_ti, m2_si, texture_handles, skin_handles,
                   mesh_handles, material_handles, m2_stored>>
    /\ UNCHANGED notM2

\* the asset server stores the asset of a load that returned Ok; from then on
\* Assets<M2Asset>::get_mut (main.rs:199) gives it to the consumer
M2Stored ==
    /\ m2_pc = "done"
    /\ m2_result[1].kind = "Ok"
    /\ m2_stored = NONE
    /\ m2_stored' = m2_result[1].asset
    /\ UNCHANGED <<m2_model, m2_skins, m2_pc, m2_ti, m2_si, texture_handles,
                   skin_handles, mesh_handles, material_handles, m2_result>>
    /\ UNCHANGED notM2

NextM2 == M2Texture \/ M2TexturesDone \/ M2Skin \/ M2Return \/ M2Stored

SpecM2 == InitM2 /\ [][NextM2]_vars

\* ------------------------------------------------------------------------
\* MPQFile::read_file (mpq.rs:328-423)
\* ------------------------------------------------------------------------
\* u32::to_string: the decimal digits of a 32-bit word given as two limbs
RECURSIVE to_string(_)
to_string(w) ==
    IF w[2] = 0 /\ w[1] < 10 THEN <<48 + w[1]>>
    ELSE LET low == (w[2] % 10) * LimbBase + w[1]
         IN  Append(to_string(<<low \div 10, w[2] \div 10>>), 48 + (low % 10))

\* format!("{}-{}", hash_a.to_string(), hash_b.to_string())
hash_table_key(hash_a, hash_b) == to_string(hash_a) \o <<45>> \o to_string(hash_b)

\* the HashTableEntry that read_hash_table stores for a file name
EntryFor(name, index) ==
    [hash_a |-> hash(name, HASH_A), hash_b |-> hash(name, HASH_B),
     block_table_index |-> index]

\* HashMap::get on the map read_hash_table built by inserting the entries in
\* file order under hash_table_key: the last entry inserted under the key
RECURSIVE HashMapGet(_, _)
HashMapGet(entries, key) ==
    IF entries = <<>> THEN NONE
    ELSE LET last == entries[Len(entries)]
         IN  IF hash_table_key(last.hash_a, last.hash_b) = key THEN Some(last)
             ELSE HashMapGet(SubSeq(entries, 1, Len(entries) - 1), key)

\* get_hash_table_entry; self.hash_table is Some after a successful load
get_hash_table_entry(self, filename) ==
    LET found == HashMapGet(self.hash_table,
                            hash_table_key(hash(filename, HASH_A), hash(filename, HASH_B)))
    IN  IF IsSome(found) THEN [kind |-> "Ok", entry |-> found[1]]
        ELSE [kind |-> "Err", entry |-> <<>>]

\* the codes of enum CompressionType, and the one decompress implements
COMPRESSION_CODES == {1, 2, 8, 16, 32, 64, 128}
ZLIB == 2

\* CompressionType::try_from(u8)
try_from(value) == IF value \in COMPRESSION_CODES THEN Some(value) ELSE NONE

\* the Adler-32 sums of zlib over data, as <<a, b>>
RECURSIVE Adler32(_)
Adler32(data) ==
    IF data = <<>> THEN <<1, 0>>
    ELSE Only({<<(prev[1] + data[Len(data)]) % 65521,
                 (prev[2] + prev[1] + data[Len(data)]) % 65521>> :
               prev \in {Adler32(SubSeq(data, 1, Len(data) - 1))}})

\* a zlib stream holding data in one final stored block
ZlibStored(data) ==
    LET n == Len(data)
        sum == Adler32(data)
    IN  <<120, 1, 1, n % 256, n \div 256, 255 - (n % 256), 255 - (n \div 256)>> \o data
        \o <<sum[2] \div 256, sum[2] % 256, sum[1] \div 256, sum[1] % 256>>

\* flate2::read::ZlibDecoder::read_to_end (mpq.rs:118-120). The decoder is
\* the crate's, not this repository's: it inflates as far as the input goes
\* and treats the end of the input as the end of the stream, so that a stream
\* cut short gives Ok with what was inflated; it fails on a corrupt stream.
\*
\* bit p (from 0) of the deflate data, each byte from its least significant bit
Bit(data, p) == (data[(p \div 8) + 1] \div Pow2(p % 8)) % 2

\* the value of n bits from bit p on, the first bit the least significant
RECURSIVE ReadBits(_, _, _)
ReadBits(data, p, n) ==
    IF n = 0 THEN 0 ELSE Bit(data, p) + 2 * ReadBits(data, p + 1, n - 1)

\* a canonical Huffman code is given by the code length of each symbol
\* (lens[s + 1] for symbol s, 0 when unused): the symbols of one length, in order
CodeSymbols(lens, len) == {s \in 1..Len(lens) : lens[s] = len}
CodeSymbol(lens, len, k) ==
    Only({(CHOOSE s \in symbols : Cardinality({t \in symbols : t < s}) = k) - 1 :
          symbols \in {CodeSymbols(lens, len)}})

\* the codes are a full set: sum of 2^(16 - len) over the used symbols is 2^16.
\* A literal/length or distance code that is not full is accepted with one or
\* no used symbol; the code length code has to be full
CodeUsed(lens) == Cardinality({s \in 1..Len(lens) : lens[s] > 0})
RECURSIVE CodeTotal(_, _)
CodeTotal(lens, len) ==
    IF len = 0 THEN 0
    ELSE 2 * (CodeTotal(lens, len - 1) + Cardinality(CodeSymbols(lens, len)))
BadTotalSymbols(lens) == CodeTotal(lens, 15) # Pow2(16) /\ CodeUsed(lens) > 1
BadCodeLengthCode(cl) == CodeTotal(cl, 15) # Pow2(16)

\* one symbol read from bit p on, the code taken bit by bit: "short" when the
\* input ends inside a code. The decoder looks a code up in a table of 10
\* bits whose unused entries hold the invalid symbol 286 with length 1, and
\* longer codes in a tree whose unused nodes hold symbol 0: bits that begin no
\* code (the code has one or no used symbol) give at once symbol 286 with one
\* bit taken when they are within the first 10 bits, and symbol 0 after them
RECURSIVE HuffDecode(_, _, _, _, _, _)
HuffDecode(lens, data, p, len, code, first) ==
    IF len > 15 THEN [status |-> "bad", sym |-> 0, p |-> p]
    ELSE IF p >= 8 * Len(data) THEN [status |-> "short", sym |-> 0, p |-> p]
    ELSE Only({IF c - count < first
               THEN [status |-> "ok", sym |-> CodeSymbol(lens, len, c - first),
                     p |-> p + 1]
               ELSE IF CodeUsed(lens) = 0 \/ (CodeUsed(lens) = 1 /\ Bit(data, p) = 1)
               THEN IF len <= 10
                    THEN [status |-> "ok", sym |-> 286, p |-> p - len + 2]
                    ELSE [status |-> "ok", sym |-> 0, p |-> p + 1]
               ELSE HuffDecode(lens, data, p + 1, len + 1, 2 * c, 2 * (first + count)) :
               c \in {code + Bit(data, p)},
               count \in {Cardinality(CodeSymbols(lens, len))}})

\* the tables of deflate: base and extra bits of the length symbols 257..285
\* and of the distance symbols 0..29
LENGTH_BASE ==
    <<3, 4, 5, 6, 7, 8, 9, 10, 11, 13, 15, 17, 19, 23, 27, 31, 35, 43, 51, 59, 67,
      83, 99, 115, 131, 163, 195, 227, 258>>
LENGTH_EXTRA ==
    <<0, 0, 0, 0, 0, 0, 0, 0, 1, 1, 1, 1, 2, 2, 2, 2, 3, 3, 3, 3, 4, 4, 4, 4, 5, 5,
      5, 5, 0>>
DIST_BASE ==
    <<1, 2, 3, 4, 5, 7, 9, 13, 17, 25, 33, 49, 65, 97, 129, 193, 257, 385, 513, 769,
      1025, 1537, 2049, 3073, 4097, 6145, 8193, 12289, 16385, 24577>>
DIST_EXTRA ==
    <<0, 0, 0, 0, 1, 1, 2, 2, 3, 3, 4, 4, 5, 5, 6, 6, 7, 7, 8, 8, 9, 9, 10, 10, 11,
      11, 12, 12, 13, 13>>
\* the order in which a dynamic block gives the lengths of the code length code
LENGTH_DEZIGZAG == <<16, 17, 18, 0, 8, 7, 9, 6, 10, 5, 11, 4, 12, 3, 13, 2, 14, 1, 15>>

\* the codes of a block of type 1
FixedLitLens ==
    [s \in 1..288 |-> IF s <= 144 THEN 8 ELSE IF s <= 256 THEN 9
                      ELSE IF s <= 280 THEN 7 ELSE 8]
FixedDistLens == [s \in 1..32 |-> 5]

\* a match of len bytes at distance dist, byte by byte; the output window
\* starts as zeros, which a distance beyond the output reads
RECURSIVE CopyMatch(_, _, _)
CopyMatch(out, dist, len) ==
    IF len = 0 THEN out
    ELSE Only({CopyMatch(next, dist, len - 1) :
               next \in {Append(out, IF dist > Len(out) THEN 0
                                     ELSE out[Len(out) - dist + 1])}})

\* the symbols of a block of type 1 or 2 up to its end-of-block symbol
RECURSIVE InflateCodes(_, _, _, _, _)
InflateCodes(data, p, out, lit, dist) ==
    Only({
        IF l.status # "ok" THEN [status |-> l.status, p |-> p, out |-> out]
        ELSE IF l.sym < 256
        THEN Only({InflateCodes(data, next[1], next[2], lit, dist) :
                   next \in {<<l.p, Append(out, l.sym)>>}})
        ELSE IF l.sym = 256 THEN [status |-> "end", p |-> l.p, out |-> out]
        ELSE IF l.sym > 285 THEN [status |-> "bad", p |-> p, out |-> out]
        ELSE IF l.p + LENGTH_EXTRA[l.sym - 256] > 8 * Len(data)
        THEN [status |-> "short", p |-> p, out |-> out]
        ELSE Only({
            IF d.status # "ok" THEN [status |-> d.status, p |-> p, out |-> out]
            ELSE IF d.sym > 29 THEN [status |-> "bad", p |-> p, out |-> out]
            ELSE IF d.p + DIST_EXTRA[d.sym + 1] > 8 * Len(data)
            THEN [status |-> "short", p |-> p, out |-> out]
            ELSE Only({InflateCodes(data, next[1], next[2], lit, dist) :
                       next \in {<<d.p + DIST_EXTRA[d.sym + 1],
                                   CopyMatch(out,
                                             DIST_BASE[d.sym + 1]
                                             + ReadBits(data, d.p, DIST_EXTRA[d.sym + 1]),
                                             length)>>}}) :
            length \in {LENGTH_BASE[l.sym - 256]
                        + ReadBits(data, l.p, LENGTH_EXTRA[l.sym - 256])},
            d \in {HuffDecode(dist, data, l.p + LENGTH_EXTRA[l.sym - 256], 1, 0, 0)}}) :
        l \in {HuffDecode(lit, data, p, 1, 0, 0)}})

\* the code lengths of a block of type 2, read with the code length code cl
\* until there are total of them
RECURSIVE ReadCodeLengths(_, _, _, _, _)
ReadCodeLengths(data, p, cl, lens, total) ==
    IF Len(lens) >= total
    THEN [status |-> IF Len(lens) = total THEN "ok" ELSE "bad", p |-> p, lens |-> lens]
    ELSE
    Only({
        IF c.status # "ok" THEN [status |-> c.status, p |-> p, lens |-> lens]
        ELSE IF c.sym < 16
        THEN Only({ReadCodeLengths(data, next[1], cl, next[2], total) :
                   next \in {<<c.p, Append(lens, c.sym)>>}})
        ELSE IF c.sym = 16 /\ lens = <<>>
        THEN [status |-> "bad", p |-> p, lens |-> lens]
        ELSE Only({
            IF c.p + extra > 8 * Len(data)
            THEN [status |-> "short", p |-> p, lens |-> lens]
            ELSE Only({ReadCodeLengths(data, next[1], cl, next[2], total) :
                       next \in {<<c.p + extra,
                                   lens \o [k \in 1..((IF c.sym = 18 THEN 11 ELSE 3)
                                                       + ReadBits(data, c.p, extra)) |->
                                              IF c.sym = 16 THEN lens[Len(lens)]
                                              ELSE 0]>>}}) :
            extra \in {IF c.sym = 16 THEN 2 ELSE IF c.sym = 17 THEN 3 ELSE 7}}) :
        c \in {HuffDecode(cl, data, p, 1, 0, 0)}})

\* a block of type 2 from the bit after its header: the table sizes, the code
\* length code, the two codes, then the symbols
InflateDynamic(data, p, out) ==
    LET bits == 8 * Len(data)
        short == [status |-> "short", p |-> p, out |-> out]
        bad == [status |-> "bad", p |-> p, out |-> out]
    IN  IF p + 14 > bits THEN short
        ELSE
        LET hlit == ReadBits(data, p, 5) + 257
            hdist == ReadBits(data, p + 5, 5) + 1
            hclen == ReadBits(data, p + 10, 4) + 4
        IN  IF hlit > 286 \/ hdist > 30 THEN bad
            ELSE IF p + 14 + 3 * hclen > bits THEN short
            ELSE
            LET given == [k \in 1..hclen |-> ReadBits(data, p + 14 + 3 * (k - 1), 3)]
                cl == [s \in 1..19 |->
                          IF \E k \in 1..hclen : LENGTH_DEZIGZAG[k] = s - 1
                          THEN given[CHOOSE k \in 1..hclen : LENGTH_DEZIGZAG[k] = s - 1]
                          ELSE 0]
            IN  IF BadCodeLengthCode(cl) THEN bad
                ELSE
                Only({IF read.status # "ok"
                      THEN [status |-> read.status, p |-> p, out |-> out]
                      ELSE Only({IF BadTotalSymbols(dist) \/ BadTotalSymbols(lit)
                                 THEN bad
                                 ELSE InflateCodes(data, read.p, out, lit, dist) :
                                 lit \in {SubSeq(read.lens, 1, hlit)},
                                 dist \in {SubSeq(read.lens, hlit + 1, hlit + hdist)}}) :
                      read \in {ReadCodeLengths(data, p + 14 + 3 * hclen, cl, <<>>,
                                                hlit + hdist)}})

\* a block of type 0 from the bit after its header: LEN and NLEN at the next
\* byte boundary, then LEN bytes
InflateStored(data, p, out) ==
    LET q == (p + 7) \div 8
    IN  IF q + 4 > Len(data) THEN [status |-> "short", p |-> p, out |-> out]
        ELSE
        LET len == data[q + 1] + 256 * data[q + 2]
            nlen == data[q + 3] + 256 * data[q + 4]
        IN  IF len + nlen # 65535 THEN [status |-> "bad", p |-> p, out |-> out]
            ELSE IF q + 4 + len > Len(data)
            THEN [status |-> "short", p |-> p,
                  out |-> out \o SubSeq(data, q + 5, Len(data))]
            ELSE [status |-> "end", p |-> 8 * (q + 4 + len),
                  out |-> out \o SubSeq(data, q + 5, q + 4 + len)]

\* the blocks up to the final one: a 3-bit header, then the block
RECURSIVE InflateBlocks(_, _, _)
InflateBlocks(data, p, out) ==
    IF p + 3 > 8 * Len(data) THEN [status |-> "short", p |-> p, out |-> out]
    ELSE
    LET type == ReadBits(data, p + 1, 2)
    IN  IF type = 3 THEN [status |-> "bad", p |-> p, out |-> out]
        ELSE Only({IF block.status = "end" /\ Bit(data, p) = 0
                   THEN InflateBlocks(data, block.p, block.out)
                   ELSE block :
                   block \in {IF type = 0 THEN InflateStored(data, p + 3, out)
                              ELSE IF type = 1
                              THEN InflateCodes(data, p + 3, out, FixedLitLens,
                                                FixedDistLens)
                              ELSE InflateDynamic(data, p + 3, out)}})

\* the big-endian Adler-32 trailer of a zlib stream over data
Adler32Bytes(data) ==
    LET sum == Adler32(data)
    IN  <<sum[2] \div 256, sum[2] % 256, sum[1] \div 256, sum[1] % 256>>

\* read_to_end on the decoder over stream: the two header bytes, the blocks,
\* and after the final block the trailer from the next byte boundary on;
\* bytes after the trailer are not read
Inflate(stream) ==
    IF Len(stream) < 2 THEN [ok |-> TRUE, bytes |-> <<>>]
    ELSE IF \/ stream[1] % 16 # 8
            \/ stream[1] \div 16 > 7
            \/ (stream[1] * 256 + stream[2]) % 31 # 0
            \/ (stream[2] \div 32) % 2 = 1
    THEN [ok |-> FALSE, bytes |-> <<>>]
    ELSE
    Only({IF ran.status = "bad" THEN [ok |-> FALSE, bytes |-> <<>>]
          ELSE IF ran.status = "short" \/ ((ran.p + 7) \div 8) + 4 > Len(data)
          THEN [ok |-> TRUE, bytes |-> ran.out]
          ELSE IF SubSeq(data, ((ran.p + 7) \div 8) + 1, ((ran.p + 7) \div 8) + 4)
                  = Adler32Bytes(ran.out)
          THEN [ok |-> TRUE, bytes |-> ran.out]
          ELSE [ok |-> FALSE, bytes |-> <<>>] :
          data \in {SubSeq(stream, 3, Len(stream))},
          ran \in {InflateBlocks(SubSeq(stream, 3, Len(stream)), 0, <<>>)}})

\* decompress(compression_type, data)
decompress(compression_type, data) ==
    IF compression_type = ZLIB
    THEN Only({IF inflated.ok
               THEN [kind |-> "Ok", error |-> "", byte |-> 0, bytes |-> inflated.bytes]
               ELSE [kind |-> "Err", error |-> "Io", byte |-> 0, bytes |-> <<>>] :
               inflated \in {Inflate(data)}})
    ELSE [kind |-> "Err", error |-> "UnsupportedCompression",
          byte |-> compression_type, bytes |-> <<>>]

\* read_u32::<LittleEndian> of the sector table, as a u32
U32At(data, ofs) ==
    <<data[ofs + 1] + 256 * data[ofs + 2], data[ofs + 3] + 256 * data[ofs + 4]>>

\* a < b on u32; a u32 that is at most a buffer length, as that number
LtL(a, b) == a[2] < b[2] \/ (a[2] = b[2] /\ a[1] < b[1])
AsUsize(w) == w[2] * LimbBase + w[1]

\* what read_file returned, and what it computed on the way:
\*   multi/sectors/positions  the sector count and the offsets read
\*   units                    the units that met the decompression condition
ReadOutcome(kind, error, detail, byte, bytes, trace) ==
    [kind |-> kind, error |-> error, detail |-> detail, byte |-> byte,
     bytes |-> bytes, multi |-> trace.multi, sectors |-> trace.sectors,
     positions |-> trace.positions, units |-> trace.units]

NoTrace == [multi |-> FALSE, sectors |-> 0, positions |-> <<>>, units |-> <<>>]

\* let sectors = (block.size as usize / sector_size) + 1 with sector_size =
\* 512 << shift for a shift below 55; size is the u32 block.size as its two
\* 16-bit limbs, so that the division by 2^(9 + shift) is taken limb by limb
sector_count(size, shift) ==
    IF shift + 9 >= 32 THEN 1
    ELSE IF shift + 9 >= 16 THEN (size[2] \div Pow2(shift + 9 - 16)) + 1
    ELSE (size[2] * Pow2(16 - (shift + 9))) + (size[1] \div Pow2(shift + 9)) + 1

\* for _ in 0..sectors + 1 { positions.push(read_u32()?) }
read_positions(raw_data, count) ==
    IF 4 * count > Len(raw_data) THEN NONE
    ELSE Some([k \in 1..count |-> U32At(raw_data, 4 * (k - 1))])

\* one iteration of `for i in 0..sectors` (mpq.rs:397-419) from the state
\* st = [res, byte, algo, units]; the result has done = FALSE to go on
sector_step(raw_data, positions, i, st, decompressing, overflow_checks) ==
    LET start == positions[i + 1]
        end == positions[i + 2]
    IN  IF LtL(end, start) /\ overflow_checks
        THEN [done |-> TRUE, kind |-> "Panic", error |-> "", byte |-> 0, st |-> st]
        ELSE IF LtL(end, start) \/ (LtL(start, end) /\ LtL(U32(Len(raw_data)), end))
        THEN [done |-> TRUE, kind |-> "Err", error |-> "Io", byte |-> 0, st |-> st]
        ELSE
        LET sector == IF start = end THEN <<>>
                      ELSE SubSeq(raw_data, AsUsize(start) + 1, AsUsize(end))
        IN  IF ~(decompressing /\ start # end)
            THEN [done |-> FALSE, kind |-> "Ok", error |-> "", byte |-> 0,
                  st |-> [st EXCEPT !.res = st.res \o sector]]
            ELSE
            LET byte == IF st.byte = 0 THEN sector[1] ELSE st.byte
                algo == IF st.byte = 0 THEN try_from(sector[1]) ELSE st.algo
                runs == byte = sector[1] /\ IsSome(algo)
                unit == [lead |-> sector[1], decompressed |-> runs]
            IN  Only({[done |-> out.kind # "Ok", kind |-> out.kind, error |-> out.error,
                       byte |-> out.byte,
                       st |-> [res |-> st.res \o out.bytes, byte |-> byte, algo |-> algo,
                               units |-> Append(st.units, unit)]] :
                      out \in {IF runs THEN decompress(algo[1], Tail(sector))
                               ELSE [kind |-> "Ok", error |-> "", byte |-> 0,
                                     bytes |-> sector]}})

RECURSIVE sector_loop(_, _, _, _, _, _, _)
sector_loop(raw_data, positions, sectors, i, st, decompressing, overflow_checks) ==
    IF i = sectors
    THEN [done |-> TRUE, kind |-> "Ok", error |-> "", byte |-> 0, st |-> st]
    ELSE Only({IF step.done THEN step
               ELSE sector_loop(raw_data, positions, sectors, i + 1, step.st,
                                decompressing, overflow_checks) :
               step \in {sector_step(raw_data, positions, i, st, decompressing,
                                     overflow_checks)}})

\* is_compressed && block.size > block.archive_size (mpq.rs:371, 406)
should_decompress(is_compressed, size, archive_size) ==
    is_compressed /\ size > archive_size

\* read_file(self, filename); self = [sector_shift, hash_table, block_table]
\* with each block [flags, size, archive_size, stored], stored being the bytes
\* the archive file holds from block.offset on
read_file(self, filename, overflow_checks) ==
    LET looked == get_hash_table_entry(self, filename)
    IN
    IF looked.kind = "Err"
    THEN ReadOutcome("Err", "FileNotFound", "", 0, <<>>, NoTrace)
    ELSE IF looked.entry.block_table_index >= Len(self.block_table)
    THEN ReadOutcome("Panic", "", "index out of bounds", 0, <<>>, NoTrace)
    ELSE
    LET block == self.block_table[looked.entry.block_table_index + 1]
        is_compressed == "COMPRESS" \in block.flags
        decompressing == should_decompress(is_compressed, block.size, block.archive_size)
    IN
    IF "EXISTS" \notin block.flags
    THEN ReadOutcome("Err", "Generic", "no file exists flag", 0, <<>>, NoTrace)
    ELSE IF "ENCRYPTED" \in block.flags
    THEN ReadOutcome("Err", "Generic", "encryption not supported", 0, <<>>, NoTrace)
    ELSE IF block.archive_size = 0
    THEN ReadOutcome("Ok", "", "", 0, <<>>, NoTrace)
    ELSE IF Len(block.stored) < block.archive_size
    THEN ReadOutcome("Err", "Io", "", 0, <<>>, NoTrace)
    ELSE
    LET raw_data == SubSeq(block.stored, 1, block.archive_size)
    IN
    IF "SINGLE_UNIT" \in block.flags
    THEN IF ~decompressing
         THEN ReadOutcome("Ok", "", "", 0, raw_data, NoTrace)
         ELSE
         LET unit == [lead |-> raw_data[1], decompressed |-> IsSome(try_from(raw_data[1]))]
             trace == [NoTrace EXCEPT !.units = <<unit>>]
         IN  IF try_from(raw_data[1]) = NONE
             THEN ReadOutcome("Err", "UnknownCompression", "", raw_data[1], <<>>, trace)
             ELSE Only({ReadOutcome(out.kind, out.error, "", out.byte, out.bytes, trace) :
                        out \in {decompress(try_from(raw_data[1])[1], Tail(raw_data))}})
    \* 512 << header.sector_shift on usize (64 bits): a shift of 64 or more
    \* panics with overflow checks and is taken modulo 64 without; from 55 on
    \* the bits are shifted out, sector_size is 0 and the division panics
    ELSE IF self.sector_shift >= 64 /\ overflow_checks
    THEN ReadOutcome("Panic", "", "attempt to shift left with overflow", 0, <<>>, NoTrace)
    ELSE IF self.sector_shift % 64 >= 55
    THEN ReadOutcome("Panic", "", "attempt to divide by zero", 0, <<>>, NoTrace)
    ELSE
    LET sectors == sector_count(U32(block.size), self.sector_shift % 64)
        positions == read_positions(raw_data, sectors + 1)
        counted == [NoTrace EXCEPT !.multi = TRUE, !.sectors = sectors]
    IN
    IF positions = NONE
    THEN ReadOutcome("Err", "Io", "", 0, <<>>, counted)
    ELSE
    LET init == [res |-> <<>>, byte |-> 0, algo |-> NONE, units |-> <<>>]
    IN  Only({ReadOutcome(ran.kind, ran.error, "", ran.byte,
                          IF ran.kind = "Ok" THEN ran.st.res ELSE <<>>,
                          [counted EXCEPT !.positions = positions[1],
                                          !.units = ran.st.units]) :
              ran \in {sector_loop(raw_data, positions[1], sectors, 0, init,
                                   decompressing, overflow_checks)}})

\* the archives read: one hash-table entry at most, one block
FILE_A == <<97>>
FILE_A_UPPER == <<65>>
FILE_B == <<98>>

StoredBytes ==
    {<<>>,
     <<ZLIB>> \o ZlibStored(<<7>>),
     <<ZLIB, 0, 0>>,
     <<ZLIB>>,
     <<ZLIB, 120, 1, 1, 1, 0, 254, 255, 7>>,
     <<ZLIB, 120, 1, 1, 1, 0, 254, 255, 7, 0, 8, 0, 9>>,
     <<ZLIB, 120, 1, 99, 103, 7, 2, 0, 0, 110, 0, 36>>,
     <<ZLIB, 120, 1, 13, 224, 1, 4, 0, 0, 0, 0, 0, 0>>,
     <<8, 0, 0, 0, 21, 0, 0, 0, ZLIB, 120, 1, 13, 224, 1, 4, 0, 0, 0, 0, 0, 0>>,
     <<8, 0, 0, 0, 9, 0, 0, 0, ZLIB>>,
     <<12, 0, 0, 0, 21, 0, 0, 0, 23, 0, 0, 0, ZLIB, 120, 1, 1, 1, 0, 254, 255, 7, 3, 9>>,
     <<3, 9>>,
     <<8, 9>>,
     <<8, 0, 0, 0, 10, 0, 0, 0, 3, 9>>,
     <<8, 0, 0, 0, 10, 0, 0, 0, 8, 9>>,
     <<8, 0, 0, 0, 10, 0, 0, 0, 0, 9>>,
     <<8, 0, 0, 0, 21, 0, 0, 0, ZLIB>> \o ZlibStored(<<7>>),
     <<8, 0, 0, 0, 8, 0, 0, 0>>,
     <<12, 0, 0, 0, 25, 0, 0, 0, 27, 0, 0, 0, ZLIB>> \o ZlibStored(<<7>>) \o <<3, 9>>,
     <<10, 0, 0, 0, 8, 0, 0, 0, 1, 1>>}

BlockSizes == {0, 8, 512, 600}

FlagSets == SUBSET {"COMPRESS", "ENCRYPTED", "SINGLE_UNIT", "EXISTS"}

Blocks ==
    {[flags |-> f, size |-> s, archive_size |-> Len(b) + missing, stored |-> b] :
        f \in FlagSets, s \in BlockSizes, b \in StoredBytes, missing \in {0, 1}}

\* header.sector_shift is a free u16 of the file: the small shifts, and
\* 30, 55 and 64, where 512 << shift is huge, is 0 and overflows
SectorShifts == (0..MaxSectorShift) \cup {30, 55, 64}

Archives ==
    {[sector_shift |-> shift, hash_table |-> table, block_table |-> <<block>>] :
        shift \in SectorShifts,
        table \in {<<>>} \cup {<<EntryFor(FILE_A, index)>> : index \in {0, 1}},
        block \in Blocks}

InitRead ==
    /\ r_archive \in {Some(a) : a \in Archives}
    /\ r_name \in {FILE_A, FILE_A_UPPER, FILE_B}
    /\ r_checks \in BOOLEAN
    /\ r_result = NONE
    /\ MpqIdle /\ M2Idle /\ NamesIdle /\ MeshIdle /\ ParseIdle /\ BlpIdle /\ LateIdle

ReadFile ==
    /\ r_result = NONE
    /\ r_result' = Some(read_file(r_archive[1], r_name, r_checks))
    /\ UNCHANGED <<r_archive, r_name, r_checks>>
    /\ UNCHANGED notRead

NextRead == ReadFile

SpecRead == InitRead /\ [][NextRead]_vars

\* ------------------------------------------------------------------------
\* Skin file names (m2.rs:91-109, 198-202; m2/loader.rs:69-77, 570-590)
\* ------------------------------------------------------------------------
\* format!("{:02}", index): the decimal digits, padded with zeros to width 2
Format02(index) == IF index < 10 THEN <<48>> \o to_string(U32(index))
                   ELSE to_string(U32(index))

\* ".skin", "://"
DOT_SKIN == <<46, 115, 107, 105, 110>>
SOURCE_DELIMITER == <<58, 47, 47>>

\* impl Display for M2RelatedAsset: Skin(index) => "{:02}.skin"
RelatedAssetToString(index) == Format02(index) \o DOT_SKIN

\* AssetPath::parse of a string without '#': the source is what precedes the
\* first "://", the path what follows it
SourceEnds(s) ==
    {k \in 1..Len(s) : k + 2 <= Len(s) /\ SubSeq(s, k, k + 2) = SOURCE_DELIMITER}
AssetPathParse(s) ==
    IF SourceEnds(s) = {} THEN [source |-> NONE, path |-> s]
    ELSE LET k == CHOOSE k \in SourceEnds(s) : \A j \in SourceEnds(s) : k <= j
         IN  [source |-> Some(SubSeq(s, 1, k - 1)), path |-> SubSeq(s, k + 3, Len(s))]

\* &s[..s.len() - 3] on a str of UTF-8 bytes: NONE where the code panics, on
\* a string of less than 3 bytes (the subtraction overflows, or the end index
\* is out of bounds in a build without overflow checks) and on a cut that
\* falls inside a character
is_char_boundary(s, index) ==
    \/ index = 0
    \/ index = Len(s)
    \/ index < Len(s) /\ ~(s[index + 1] >= 128 /\ s[index + 1] <= 191)
WithoutLast3(s) ==
    IF Len(s) < 3 THEN NONE
    ELSE IF ~is_char_boundary(s, Len(s) - 3) THEN NONE
    ELSE Some(SubSeq(s, 1, Len(s) - 3))

\* M2RelatedAsset::Skin(index).from_asset(path)
from_asset(index, path) ==
    LET base_file_name == WithoutLast3(path.path)
    IN  IF base_file_name = NONE
        THEN [kind |-> "Panic", source |-> NONE, path |-> <<>>]
        ELSE [kind |-> "Ok", source |-> path.source,
              path |-> AssetPathParse(base_file_name[1]
                                      \o RelatedAssetToString(index)).path]

\* M2Old::skin_files with self.file_id and self.data.view_count(): the base
\* name is cut before the loop, whatever the count
skin_files(file_id, count) ==
    LET base_file_name == WithoutLast3(file_id)
    IN  IF base_file_name = NONE THEN [kind |-> "Panic", files |-> <<>>]
        ELSE [kind |-> "Ok",
              files |-> [k \in 1..count |->
                            base_file_name[1] \o Format02(k - 1) \o DOT_SKIN]]

\* load_from_mpq, `for i in 0..num_skins` (loader.rs:587-594) from skin i on:
\* names are the skin names given to mpq_file.read_file so far; a skin that
\* is missing or does not parse returns the error
RECURSIVE load_from_mpq_loop(_, _, _, _)
load_from_mpq_loop(base_file_name, skins, i, names) ==
    IF i = Len(skins) THEN [kind |-> "Ok", names |-> names]
    ELSE Only({IF skins[i + 1] # "ok" THEN [kind |-> "Err", names |-> asked]
               ELSE load_from_mpq_loop(base_file_name, skins, i + 1, asked) :
               asked \in {Append(names, base_file_name \o Format02(i) \o DOT_SKIN)}})

\* load_from_mpq(mpq_file, fname) on an archive where the model file is
\* "ok", "missing", "unparsed" (M2Model::parse fails) or "short" (the vertex
\* array cannot be read), and skins[i + 1] says the same of skin i: the outcome
\* and the skin names given to read_file; num_skins is Len(skins)
load_from_mpq_skins(fname, model, skins) ==
    IF model \in {"missing", "unparsed"} THEN [kind |-> "Err", names |-> <<>>]
    ELSE IF WithoutLast3(fname) = NONE THEN [kind |-> "Panic", names |-> <<>>]
    ELSE IF model = "short" THEN [kind |-> "Err", names |-> <<>>]
    ELSE load_from_mpq_loop(WithoutLast3(fname)[1], skins, 0, <<>>)

\* model paths: "x.m2", "a/b.M2", "abc", "w\\n.mdx", "ab", "a\u00e9\u00e9",
\* alone or after "mpq://"
ModelPaths ==
    {<<120, 46, 109, 50>>, <<97, 47, 98, 46, 77, 50>>, <<97, 98, 99>>,
     <<119, 92, 110, 46, 109, 100, 120>>, <<97, 98>>, <<97, 195, 169, 195, 169>>}
MPQ_SOURCE == <<109, 112, 113>> \o SOURCE_DELIMITER

\* the archives of load_from_mpq for a model of n skins: every file loads, the
\* model file does not, or one skin does not
MpqContents(n) ==
    {[model |-> m, skins |-> [k \in 1..n |-> "ok"]] :
        m \in {"ok", "missing", "unparsed", "short"}}
    \cup {[model |-> "ok", skins |-> [k \in 1..n |-> IF k = bad THEN how ELSE "ok"]] :
            bad \in 1..n, how \in {"missing", "unparsed"}}

InitNames ==
    /\ n_path \in ModelPaths \cup {MPQ_SOURCE \o p : p \in ModelPaths}
    /\ n_views \in 0..MaxSkinProfiles
    /\ n_from_asset = <<>>
    /\ n_asset_pc = "loop"
    /\ n_skin_files = NONE
    /\ n_mpq \in MpqContents(n_views)
    /\ n_load_from_mpq = NONE
    /\ MpqIdle /\ M2Idle /\ ReadIdle /\ MeshIdle /\ ParseIdle /\ BlpIdle /\ LateIdle

\* M2Asset::new, `for i in 0..num_skins` (m2.rs:198-202): skin_path of skin i
\* is given to read_asset_bytes and the future waits for the bytes; a panic
\* of from_asset ends the load
NamesFromAsset ==
    /\ n_asset_pc = "loop"
    /\ Len(n_from_asset) < n_views
    /\ LET skin_path == from_asset(Len(n_from_asset), AssetPathParse(n_path))
       IN  IF skin_path.kind = "Panic"
           THEN n_asset_pc' = "panicked" /\ UNCHANGED n_from_asset
           ELSE /\ n_from_asset' = Append(n_from_asset,
                                          [source |-> skin_path.source,
                                           path |-> skin_path.path])
                /\ n_asset_pc' = "await"
    /\ UNCHANGED <<n_path, n_views, n_skin_files, n_mpq, n_load_from_mpq>>
    /\ UNCHANGED notNames

\* the bytes arrive, the skin parses and its meshes are built (m2.rs:203-297)
NamesSkinLoaded ==
    /\ n_asset_pc = "await"
    /\ n_asset_pc' = "loop"
    /\ UNCHANGED <<n_path, n_views, n_from_asset, n_skin_files, n_mpq, n_load_from_mpq>>
    /\ UNCHANGED notNames

\* the read or the parse fails, or the build aborts: no further skin is requested
NamesSkinFailed ==
    /\ n_asset_pc = "await"
    /\ n_asset_pc' = "failed"
    /\ UNCHANGED <<n_path, n_views, n_from_asset, n_skin_files, n_mpq, n_load_from_mpq>>
    /\ UNCHANGED notNames

\* the loop ends after num_skins skins
NamesAssetDone ==
    /\ n_asset_pc = "loop"
    /\ Len(n_from_asset) >= n_views
    /\ n_asset_pc' = "done"
    /\ UNCHANGED <<n_path, n_views, n_from_asset, n_skin_files, n_mpq, n_load_from_mpq>>
    /\ UNCHANGED notNames

\* loader::load(raw_data, file_id) on the logical path, then skin_files()
NamesSkinFiles ==
    /\ n_skin_files = NONE
    /\ n_skin_files' = Some(skin_files(AssetPathParse(n_path).path, n_views))
    /\ UNCHANGED <<n_path, n_views, n_from_asset, n_asset_pc, n_mpq, n_load_from_mpq>>
    /\ UNCHANGED notNames

\* load_from_mpq(mpq_file, fname) on the logical path; num_skins is
\* header.num_skin_profiles.unwrap_or(0), here the skins of the archive
NamesLoadFromMpq ==
    /\ n_load_from_mpq = NONE
    /\ n_load_from_mpq' = Some(load_from_mpq_skins(AssetPathParse(n_path).path,
                                                   n_mpq.model, n_mpq.skins))
    /\ UNCHANGED <<n_path, n_views, n_from_asset, n_asset_pc, n_skin_files, n_mpq>>
    /\ UNCHANGED notNames

NextNames ==
    \/ NamesFromAsset \/ NamesSkinLoaded \/ NamesSkinFailed \/ NamesAssetDone
    \/ NamesSkinFiles \/ NamesLoadFromMpq

SpecNames == InitNames /\ [][NextNames]_vars

\* ------------------------------------------------------------------------
\* Vertices and indices from the model file to the meshes
\* (m2.rs:186-235, 335-343; utils.rs:67-73; m2/md20.rs:138-175;
\*  m2/loader.rs:53-67, 387-603)
\* ------------------------------------------------------------------------
\* a vector is <<x, y, z>>; f32 values are taken among the integers, on which
\* `* -1.` is exact

\* M2Loader::load and load_from_mpq on a parsed vertex:
\*   let y = v.z; v.z = v.y * -1.; v.y = y
fix_up(v) == <<v[1], v[3], (0 - 1) * v[2]>>

\* utils::read_vec3: x is read first, then z = (next) * -1., then y
read_vec3(floats) == <<floats[1], floats[3], floats[2] * (0 - 1)>>

\* c3_to_vec3
c3_to_vec3(vec) == <<vec[1], vec[2], vec[3]>>

\* to_mesh4: positions.push(v.x); positions.push(v.z * -1.); positions.push(v.y)
to_mesh4_push(v) == <<v[1], v[3] * (0 - 1), v[2]>>

\* wow_m2::M2Model::parse and load_from_mpq's own read of the vertex array
parsed_vertex(v) == [position |-> v.position, normal |-> v.normal]
fixed_vertex(v) == [position |-> fix_up(v.position), normal |-> fix_up(v.normal)]
read_vertex(v) == [position |-> read_vec3(v.position), normal |-> read_vec3(v.normal)]

\* md20::Data::vertice_data: vertices.size / 3 vertices are read
vertice_data(file_vertices) ==
    [k \in 1..(Len(file_vertices) \div 3) |-> read_vertex(file_vertices[k])]

\* md20::Data::triangles
MD20_TRIANGLES == <<0, 3, 1, 1, 3, 2>>

\* a mesh: its position and normal attributes, its index buffer, and for each
\* emitted vertex the index of the file vertex it was made from;
\* computed_normals says that the normal attribute is not the one given but
\* the one Mesh::compute_normals derives from the positions and the indices
\* (its values are not modelled: normals is empty then)
MeshOf(vertices, indices) ==
    [positions |-> [k \in DOMAIN vertices |-> vertices[k].position],
     normals |-> [k \in DOMAIN vertices |-> vertices[k].normal],
     computed_normals |-> FALSE,
     indices |-> indices,
     origin |-> [k \in DOMAIN vertices |-> k - 1]]

MeshesOk(meshes) == [kind |-> "Ok", meshes |-> meshes]
MeshPanic == [kind |-> "Panic", meshes |-> <<>>]

\* skin.indices[skin.triangles[triangle_start + vi]] : None when an index is
\* out of the bounds of its array
skin_index(skin, at) ==
    IF at >= Len(skin.triangles) THEN NONE
    ELSE IF skin.triangles[at + 1] >= Len(skin.indices) THEN NONE
    ELSE Some(skin.indices[skin.triangles[at + 1] + 1])

\* M2Asset::new, the mesh of one submesh (m2.rs:211-235)
submesh_mesh(vertices, skin, submesh) ==
    LET looked == [vi \in 1..submesh.triangle_count |->
                      skin_index(skin, submesh.triangle_start + vi - 1)]
    IN  IF \E vi \in DOMAIN looked : looked[vi] = NONE THEN NONE
        ELSE Some(MeshOf(vertices, [vi \in DOMAIN looked |-> looked[vi][1]]))

\* M2Asset::new, the meshes of one skin
asset_meshes(model_vertices, skin) ==
    LET vertices == [k \in DOMAIN model_vertices |->
                        [position |-> c3_to_vec3(model_vertices[k].position),
                         normal |-> c3_to_vec3(model_vertices[k].normal)]]
        made == [mi \in DOMAIN skin.submeshes |->
                    submesh_mesh(vertices, skin, skin.submeshes[mi])]
    IN  IF \E mi \in DOMAIN made : made[mi] = NONE THEN MeshPanic
        ELSE MeshesOk([mi \in DOMAIN made |-> made[mi][1]])

\* M2Old::to_mesh
md20_to_mesh(data_vertices) == MeshesOk(<<MeshOf(data_vertices, MD20_TRIANGLES)>>)

\* M2::to_mesh (on model.vertices) and M2::to_mesh3 (on self.vertices): the
\* index buffer is skin.triangles
to_mesh(vertices, skin) == MeshesOk(<<MeshOf(vertices, skin.triangles)>>)

\* export_faces / add_vertex over the vertex references of one submesh:
\* acc = [order, indices], order listing the distinct references seen
IndexIn(order, v) == CHOOSE k \in DOMAIN order : order[k] = v
RECURSIVE add_vertices(_, _, _)
add_vertices(refs, count, acc) ==
    IF refs = <<>> THEN Some(acc)
    ELSE LET v == refs[1]
         IN  IF \E k \in DOMAIN acc.order : acc.order[k] = v
             THEN add_vertices(Tail(refs), count,
                               [acc EXCEPT !.indices = Append(@, IndexIn(acc.order, v) - 1)])
             ELSE IF v * 3 + 2 >= count * 3 THEN NONE
             ELSE add_vertices(Tail(refs), count,
                               [order |-> Append(acc.order, v),
                                indices |-> Append(acc.indices, Len(acc.order))])

\* to_mesh4, the references of the faces of one submesh: face vi takes the
\* triangles at triangle_start + vi, + 1, + 2, for vi in 0..triangle_count / 3
face_refs(skin, submesh) ==
    LET at == [k \in 1..(3 * (submesh.triangle_count \div 3)) |->
                  submesh.triangle_start + ((k - 1) \div 3) + ((k - 1) % 3)]
        looked == [k \in DOMAIN at |-> skin_index(skin, at[k])]
    IN  IF \E k \in DOMAIN looked : looked[k] = NONE THEN NONE
        ELSE Some([k \in DOMAIN looked |-> looked[k][1]])

\* M2::to_mesh4 and MeshConverter::convert: one bevy mesh of all submeshes.
\* export_faces gives a submesh without a face a mesh without normals, and
\* has_normal() is false when any of the meshes has none: convert then calls
\* compute_normals() instead of inserting the normals of the file
\* (force_compute_normals and prefer_flat_normals are false)
RECURSIVE convert(_, _, _, _)
convert(pushed, skin, mi, mesh) ==
    IF mi > Len(skin.submeshes)
    THEN MeshesOk(<<[positions |-> mesh.positions,
                     normals |-> IF mesh.has_normal THEN mesh.normals ELSE <<>>,
                     computed_normals |-> ~mesh.has_normal,
                     indices |-> mesh.indices,
                     origin |-> mesh.origin]>>)
    ELSE LET refs == face_refs(skin, skin.submeshes[mi])
         IN  IF refs = NONE THEN MeshPanic
             ELSE LET added == add_vertices(refs[1], Len(pushed),
                                            [order |-> <<>>, indices |-> <<>>])
                  IN  IF added = NONE THEN MeshPanic
                      ELSE LET part == added[1]
                               offset == Len(mesh.positions)
                           IN  convert(pushed, skin, mi + 1,
                                  [positions |-> mesh.positions \o
                                      [k \in DOMAIN part.order |->
                                          pushed[part.order[k] + 1].position],
                                   normals |-> mesh.normals \o
                                      [k \in DOMAIN part.order |->
                                          pushed[part.order[k] + 1].normal],
                                   has_normal |-> mesh.has_normal /\ part.order # <<>>,
                                   indices |-> mesh.indices \o
                                      [k \in DOMAIN part.indices |->
                                          part.indices[k] + offset],
                                   origin |-> mesh.origin \o part.order])

to_mesh4(model_vertices, skin) ==
    convert([k \in DOMAIN model_vertices |->
                [position |-> to_mesh4_push(model_vertices[k].position),
                 normal |-> to_mesh4_push(model_vertices[k].normal)]],
            skin, 1,
            [positions |-> <<>>, normals |-> <<>>, has_normal |-> TRUE,
             indices |-> <<>>, origin |-> <<>>])

\* the ways from a file to a mesh
Pipelines == {"M2Asset", "M2Old::to_mesh", "M2::to_mesh", "M2::to_mesh3", "M2::to_mesh4"}

FileVectors == {<<1, 2, 3>>, <<0 - 1, 0, 5>>}
FileNormals == {<<0, 0, 1>>, <<0, 1, 0>>}
FileVertices ==
    UNION {[1..n -> [position : FileVectors, normal : FileNormals]] : n \in 1..MaxVertices}
Skins ==
    [indices : {<<0>>, <<2>>, <<0, 1>>, <<1, 0>>, <<0, 2>>},
     triangles : [1..3 -> {0, 1}],
     submeshes : {<<[triangle_start |-> 0, triangle_count |-> 3]>>,
                  <<[triangle_start |-> 1, triangle_count |-> 3]>>,
                  <<[triangle_start |-> 0, triangle_count |-> 3],
                    [triangle_start |-> 0, triangle_count |-> 3]>>,
                  <<[triangle_start |-> 0, triangle_count |-> 2]>>,
                  <<[triangle_start |-> 0, triangle_count |-> 3],
                    [triangle_start |-> 0, triangle_count |-> 2]>>}]
    \cup
    \* two triangles in one submesh, and in the second of two submeshes
    [indices : {<<0, 1, 2>>, <<1, 0>>},
     triangles : {<<0, 1, 0, 1, 1, 0>>, <<0, 1, 1, 1, 0, 0, 1, 0, 1>>},
     submeshes : {<<[triangle_start |-> 0, triangle_count |-> 6]>>,
                  <<[triangle_start |-> 0, triangle_count |-> 3],
                    [triangle_start |-> 3, triangle_count |-> 6]>>}]

InitMesh ==
    /\ g_vertices \in FileVertices
    /\ g_skin \in {Some(s) : s \in Skins}
    /\ g_pipeline \in Pipelines
    /\ g_stage = "file"
    /\ g_model = <<>>
    /\ g_meshes = <<>>
    /\ MpqIdle /\ M2Idle /\ ReadIdle /\ NamesIdle /\ ParseIdle /\ BlpIdle /\ LateIdle

\* M2Loader::load up to the call of M2Asset::new (m2.rs:330-343)
MeshLoadAsset ==
    /\ g_stage = "file" /\ g_pipeline = "M2Asset"
    /\ g_model' = [model |-> [k \in DOMAIN g_vertices |->
                                 fixed_vertex(parsed_vertex(g_vertices[k]))],
                   vertices |-> <<>>]
    /\ g_stage' = "parsed"
    /\ UNCHANGED <<g_vertices, g_skin, g_pipeline, g_meshes>>
    /\ UNCHANGED notMesh

\* loader::load and md20::Data::vertice_data
MeshLoadMd20 ==
    /\ g_stage = "file" /\ g_pipeline = "M2Old::to_mesh"
    /\ g_model' = [model |-> <<>>, vertices |-> vertice_data(g_vertices)]
    /\ g_stage' = "parsed"
    /\ UNCHANGED <<g_vertices, g_skin, g_pipeline, g_meshes>>
    /\ UNCHANGED notMesh

\* load_from_mpq (loader.rs:555-603)
MeshLoadFromMpq ==
    /\ g_stage = "file" /\ g_pipeline \in {"M2::to_mesh", "M2::to_mesh3", "M2::to_mesh4"}
    /\ g_model' = [model |-> [k \in DOMAIN g_vertices |->
                                 fixed_vertex(parsed_vertex(g_vertices[k]))],
                   vertices |-> [k \in DOMAIN g_vertices |-> read_vertex(g_vertices[k])]]
    /\ g_stage' = "parsed"
    /\ UNCHANGED <<g_vertices, g_skin, g_pipeline, g_meshes>>
    /\ UNCHANGED notMesh

\* the function that builds the mesh
MeshBuild ==
    /\ g_stage = "parsed"
    /\ g_meshes' =
          IF g_pipeline = "M2Asset" THEN asset_meshes(g_model.model, g_skin[1])
          ELSE IF g_pipeline = "M2Old::to_mesh" THEN md20_to_mesh(g_model.vertices)
          ELSE IF g_pipeline = "M2::to_mesh" THEN to_mesh(g_model.model, g_skin[1])
          ELSE IF g_pipeline = "M2::to_mesh3" THEN to_mesh(g_model.vertices, g_skin[1])
          ELSE to_mesh4(g_model.model, g_skin[1])
    /\ g_stage' = "meshed"
    /\ UNCHANGED <<g_vertices, g_skin, g_pipeline, g_model>>
    /\ UNCHANGED notMesh

NextMesh == MeshLoadAsset \/ MeshLoadMd20 \/ MeshLoadFromMpq \/ MeshBuild

SpecMesh == InitMesh /\ [][NextMesh]_vars

\* ------------------------------------------------------------------------
\* m2::loader::load and md20::parse_chunk (m2/loader.rs:25-42, 80-139;
\* m2/md20.rs:178-282)
\* ------------------------------------------------------------------------
\* enum Magic and enum ChunkType
MD21 == 825377869
MD20 == 808600653
SFID == 1145652819
TXID == 1145657428
SKID == 1145654099
BFID == 1145652802
AFID == 1145652801
Magic == {MD21, MD20}
ChunkType == {MD20, MD21, SFID, TXID, SKID, BFID, AFID}

\* Flags::USE_TEXTURE_COMBINER_COMBOS
USE_TEXTURE_COMBINER_COMBOS == 8

\* cursor.read_u32::<LittleEndian>() at byte position pos: None at the end of
\* the buffer (the buffers drawn keep every u32 below 2^31)
CursorReadU32(raw_data, pos) ==
    IF pos + 4 > Len(raw_data) THEN NONE
    ELSE Some(raw_data[pos + 1] + 256 * raw_data[pos + 2] + 65536 * raw_data[pos + 3]
              + 16777216 * raw_data[pos + 4])

\* the bytes parse_chunk reads after the flags when no read fails: magic,
\* version, 29 count/offset pairs, view_count, two boxes and two radii
MD20_HEADER_BYTES == 4 * (2 + 2 * 29 + 2 + 2 * 6 + 2)

LoadErr(error, value) == [kind |-> "Err", error |-> error, value |-> value, data |-> NONE]
LoadPanic == [kind |-> "Panic", error |-> "", value |-> 0, data |-> NONE]

\* md20::parse_chunk(raw_data, ofs): the cursor starts at byte 0 of raw_data
parse_chunk(raw_data, ofs) ==
    LET magic == CursorReadU32(raw_data, 0)
    IN  IF magic = NONE THEN LoadErr("Io", 0)
        ELSE IF magic[1] \notin Magic THEN LoadErr("InvalidM2Magic", magic[1])
        ELSE IF magic[1] # MD20 THEN LoadErr("InvalidMagicValue", magic[1])
        ELSE IF Len(raw_data) < 20 THEN LoadErr("Io", 0)
        ELSE
        LET flags == CursorReadU32(raw_data, 16)[1]
            combos == (flags \div USE_TEXTURE_COMBINER_COMBOS) % 2 = 1
            read == MD20_HEADER_BYTES + (IF combos THEN 8 ELSE 0)
        IN  IF Len(raw_data) < read THEN LoadErr("Io", 0)
            ELSE [kind |-> "Ok", error |-> "", value |-> 0,
                  data |-> Some([offset |-> ofs,
                                 version |-> CursorReadU32(raw_data, 4)[1],
                                 flags |-> flags,
                                 vertices |-> [size |-> CursorReadU32(raw_data, 60)[1],
                                               offset |-> CursorReadU32(raw_data, 64)[1]],
                                 view_count |-> CursorReadU32(raw_data, 68)[1]])]

\* the chunk loop of load (loader.rs:96-129) from cursor position pos, with
\* chunk_id the tag read before the loop and data the payload parsed so far
RECURSIVE chunk_loop(_, _, _, _)
chunk_loop(raw_data, chunk_id, pos, data) ==
    IF ~(pos < Len(raw_data)) THEN LoadPanic
    ELSE LET chunk_size == CursorReadU32(raw_data, pos)
         IN  IF chunk_size = NONE THEN LoadErr("Io", 0)
             ELSE
             LET next_chunk_pos == pos + 4 + chunk_size[1]
             IN  IF chunk_id = MD20 THEN LoadPanic
                 ELSE IF chunk_id = MD21
                 THEN IF IsSome(data) THEN LoadErr("CorruptedFile", 0)
                      ELSE LET parsed == parse_chunk(raw_data, pos + 4)
                           IN  IF parsed.kind # "Ok" THEN parsed
                               ELSE chunk_loop(raw_data, chunk_id, next_chunk_pos,
                                               parsed.data)
                 ELSE chunk_loop(raw_data, chunk_id, next_chunk_pos, data)

\* pub fn load(raw_data, file_id)
m2_load(raw_data) ==
    LET first == CursorReadU32(raw_data, 0)
    IN  IF first = NONE THEN LoadErr("Io", 0)
        ELSE IF first[1] \notin ChunkType THEN LoadErr("InvalidM2ChunkType", first[1])
        ELSE IF first[1] = MD20 THEN parse_chunk(raw_data, 0)
        ELSE chunk_loop(raw_data, first[1], 0, NONE)

\* the four bytes of a u32, and buffers made of u32 fields
U32Bytes(n) == <<n % 256, (n \div 256) % 256, (n \div 65536) % 256, n \div 16777216>>
RECURSIVE WordsBytes(_)
WordsBytes(words) ==
    IF words = <<>> THEN <<>> ELSE U32Bytes(words[1]) \o WordsBytes(Tail(words))

\* a legacy header: version 264, 2 vertices at offset 320, the given flags
\* and view count, every other field 0
LegacyHeader(flags, views) ==
    WordsBytes([k \in 1..((MD20_HEADER_BYTES \div 4)
                          + (IF (flags \div USE_TEXTURE_COMBINER_COMBOS) % 2 = 1
                             THEN 2 ELSE 0)) |->
                  IF k = 1 THEN MD20
                  ELSE IF k = 2 THEN 264
                  ELSE IF k = 5 THEN flags
                  ELSE IF k = 16 THEN 2
                  ELSE IF k = 17 THEN 320
                  ELSE IF k = 18 THEN views
                  ELSE 0])

\* a file of chunks (tag, size, size bytes)
Chunk(tag, payload) == U32Bytes(tag) \o U32Bytes(Len(payload)) \o payload

FirstBytes(buffer, n) == SubSeq(buffer, 1, IF n < Len(buffer) THEN n ELSE Len(buffer))

WholeBuffers ==
    LET headers == {LegacyHeader(flags, views) :
                       flags \in {0, 1, USE_TEXTURE_COMBINER_COMBOS},
                       views \in 0..MaxViews}
    IN  headers
        \cup {Chunk(MD21, h) : h \in headers}
        \cup {Chunk(MD21, h) \o Chunk(SFID, <<1, 0, 0, 0>>) : h \in headers}
        \cup {Chunk(tag, <<>>) \o Chunk(MD21, h) :
                 tag \in {SFID, TXID, SKID, BFID, AFID}, h \in headers}
        \cup {Chunk(tag, <<>>) : tag \in {SFID, 0, 7}}

Buffers ==
    {FirstBytes(b, n) : b \in WholeBuffers,
                        n \in {0, 3, 4, 19, 20, 303, 304, 311, 312, 320, 400}}

InitParse ==
    /\ p_buffer \in {Some(b) : b \in Buffers}
    /\ p_result = NONE
    /\ MpqIdle /\ M2Idle /\ ReadIdle /\ NamesIdle /\ MeshIdle /\ BlpIdle /\ LateIdle

LoadMd20 ==
    /\ p_result = NONE
    /\ CursorReadU32(p_buffer[1], 0) = Some(MD20)
    /\ p_result' = Some(m2_load(p_buffer[1]))
    /\ UNCHANGED p_buffer
    /\ UNCHANGED notParse

LoadChunked ==
    /\ p_result = NONE
    /\ CursorReadU32(p_buffer[1], 0) # Some(MD20)
    /\ p_result' = Some(m2_load(p_buffer[1]))
    /\ UNCHANGED p_buffer
    /\ UNCHANGED notParse

NextParse == LoadMd20 \/ LoadChunked

SpecParse == InitParse /\ [][NextParse]_vars

\* ------------------------------------------------------------------------
\* m2::blp_to_image (m2.rs:35-84)
\* ------------------------------------------------------------------------
\* the (header.content, compression_type()) pairs of a BlpImage; its content
\* variant is the one that pair names
BlpKinds ==
    {<<"Jpeg", "Jpeg">>} \cup
    {<<"Direct", c>> : c \in {"Raw1", "Raw3", "Dxt1", "Dxt3", "Dxt5"}}
ContentVariant(content_tag, compression) ==
    IF content_tag = "Jpeg" THEN "Jpeg" ELSE compression

\* the first match of blp_to_image: the texture format, or None for the
\* "unsupported texture format" error
texture_format(content_tag, compression) ==
    IF content_tag = "Direct"
    THEN CASE compression = "Dxt1" -> Some("Bc1RgbaUnorm")
           [] compression = "Dxt3" -> Some("Bc2RgbaUnorm")
           [] compression = "Dxt5" -> Some("Bc3RgbaUnorm")
           [] OTHER -> NONE
    ELSE NONE

\* TextureFormat::block_dimensions and block size in bytes of the BC formats
block_dimension(format) == IF format \in {"Bc1RgbaUnorm", "Bc2RgbaUnorm", "Bc3RgbaUnorm"} THEN 4 ELSE 1
block_bytes(compression) == IF compression = "Dxt1" THEN 8 ELSE 16

\* one side of the extent as the emitted descriptor would carry it unpadded
logical_size(side, format) == side
\* Extent3d::physical_size(format) on one side: rounded up to whole blocks
physical_size(side, format) ==
    ((side + block_dimension(format) - 1) \div block_dimension(format))
        * block_dimension(format)

BlpErr == [kind |-> "Err", error |-> "unsupported texture format", image |-> NONE]

blp_to_image(blp) ==
    LET format == texture_format(blp.content_tag, blp.compression)
    IN  IF format = NONE THEN BlpErr
        ELSE IF blp.content \notin {"Dxt1", "Dxt3", "Dxt5"} THEN BlpErr
        ELSE [kind |-> "Ok", error |-> "",
              image |-> Some([width |-> physical_size(blp.mipmap_info[1].width, format[1]),
                              height |-> physical_size(blp.mipmap_info[1].height, format[1]),
                              depth_or_array_layers |-> 1,
                              data |-> blp.images[1],
                              mip_level_count |-> 1,
                              format |-> format[1],
                              dimension |-> "D2"])]

\* mip level k (from 0) of a w x h texture, and its block bytes
MipSide(side, k) == IF side \div (2 ^ k) = 0 THEN 1 ELSE side \div (2 ^ k)
MipBytes(w, h, compression, seed) ==
    [i \in 1..(((w + 3) \div 4) * ((h + 3) \div 4) * block_bytes(compression)) |->
        (seed + 37 * i) % 256]

BlpImageOf(kind, w, h, mips, seed) ==
    [content_tag |-> kind[1],
     compression |-> kind[2],
     content |-> ContentVariant(kind[1], kind[2]),
     mipmap_info |-> [k \in 1..mips |-> [width |-> MipSide(w, k - 1),
                                         height |-> MipSide(h, k - 1)]],
     images |-> [k \in 1..mips |->
                    MipBytes(MipSide(w, k - 1), MipSide(h, k - 1), kind[2], seed + k)]]

BlpImages ==
    {BlpImageOf(kind, w, h, mips, seed) :
        kind \in BlpKinds, w \in {1, 2, 4, 8}, h \in {1, 4, 6},
        mips \in 1..MaxMips, seed \in {0, 100}}

InitBlp ==
    /\ i_blp \in {Some(b) : b \in BlpImages}
    /\ i_result = NONE
    /\ MpqIdle /\ M2Idle /\ ReadIdle /\ NamesIdle /\ MeshIdle /\ ParseIdle /\ LateIdle

BlpToImage ==
    /\ i_result = NONE
    /\ i_result' = Some(blp_to_image(i_blp[1]))
    /\ UNCHANGED i_blp
    /\ UNCHANGED notBlp

NextBlp == BlpToImage

SpecBlp == InitBlp /\ [][NextBlp]_vars

\* ------------------------------------------------------------------------
\* MPQFile::get_file_list (mpq.rs:425-436)
\* ------------------------------------------------------------------------
\* b'\n'
LF == 10

\* buf.split(|&byte| byte == b'\n'): the parts between line feeds, an empty
\* part after a final line feed included
RECURSIVE split(_, _)
split(buf, part) ==
    IF buf = <<>> THEN <<part>>
    ELSE IF buf[1] = LF THEN <<part>> \o split(Tail(buf), <<>>)
    ELSE split(Tail(buf), Append(part, buf[1]))

\* a UTF-8 continuation byte at position k of bytes
is_continuation(bytes, k) == k <= Len(bytes) /\ bytes[k] >= 128 /\ bytes[k] <= 191

\* core::str::from_utf8 validation: well-formed sequences of one to four
\* bytes, without overlong forms, surrogates and values above U+10FFFF
RECURSIVE run_utf8_validation(_)
run_utf8_validation(bytes) ==
    IF bytes = <<>> THEN TRUE
    ELSE Only({IF first < 128 THEN run_utf8_validation(Tail(bytes))
               ELSE IF first >= 194 /\ first <= 223
               THEN /\ is_continuation(bytes, 2)
                    /\ run_utf8_validation(SubSeq(bytes, 3, Len(bytes)))
               ELSE IF first >= 224 /\ first <= 239
               THEN /\ is_continuation(bytes, 2) /\ is_continuation(bytes, 3)
                    /\ first = 224 => bytes[2] >= 160
                    /\ first = 237 => bytes[2] <= 159
                    /\ run_utf8_validation(SubSeq(bytes, 4, Len(bytes)))
               ELSE IF first >= 240 /\ first <= 244
               THEN /\ is_continuation(bytes, 2) /\ is_continuation(bytes, 3)
                    /\ is_continuation(bytes, 4)
                    /\ first = 240 => bytes[2] >= 144
                    /\ first = 244 => bytes[2] <= 143
                    /\ run_utf8_validation(SubSeq(bytes, 5, Len(bytes)))
               ELSE FALSE :
               first \in {bytes[1]}})

\* String::from_utf8
from_utf8(bytes) ==
    IF run_utf8_validation(bytes) THEN Some(bytes) ELSE NONE

\* the closure of the map: an empty part is "", any other part loses its
\* last byte
line_name(part) ==
    IF Len(part) = 0 THEN Some(<<>>) ELSE from_utf8(SubSeq(part, 1, Len(part) - 1))

\* get_file_list given what read_file("(listfile)") returned
get_file_list(read) ==
    IF read = NONE THEN [kind |-> "Err", error |-> "read_file", names |-> <<>>]
    ELSE LET parts == split(read[1], <<>>)
             names == [k \in DOMAIN parts |-> line_name(parts[k])]
         IN  IF \E k \in DOMAIN names : names[k] = NONE
             THEN [kind |-> "Err", error |-> "Utf8", names |-> <<>>]
             ELSE [kind |-> "Ok", error |-> "", names |-> [k \in DOMAIN names |-> names[k][1]]]

\* 'a', 'b', carriage return, line feed, the two bytes of U+00E9 (neither is
\* text on its own), and a byte no UTF-8 text holds
ListBytes == {97, 98, 13, LF, 195, 169, 255}
InitList ==
    /\ l_read \in {Some(b) : b \in SeqsUpTo(ListBytes, MaxListLen)} \cup {NONE}
    /\ l_result = NONE
    /\ EarlyIdle /\ MatIdle /\ LifeIdle /\ ViewIdle

GetFileList ==
    /\ l_result = NONE
    /\ IsSome(l_read)
    /\ l_result' = Some(get_file_list(l_read))
    /\ UNCHANGED l_read
    /\ UNCHANGED notList

GetFileListUnread ==
    /\ l_result = NONE
    /\ l_read = NONE
    /\ l_result' = Some(get_file_list(l_read))
    /\ UNCHANGED l_read
    /\ UNCHANGED notList

NextList == GetFileList \/ GetFileListUnread

SpecList == InitList /\ [][NextList]_vars

\* ------------------------------------------------------------------------
\* M2Asset::new: texture handles and materials (m2.rs:160-182, 226-297)
\* ------------------------------------------------------------------------
\* material_map.contains_key(key)
contains_key(map, key) == \E k \in DOMAIN map : map[k][1] = key

\* texture_handles.get(texture_combo_index).cloned()
base_color_texture(handles, texture_combo_index) ==
    IF texture_combo_index < Len(handles) THEN Some(handles[texture_combo_index + 1])
    ELSE NONE

\* the material key a submesh keeps when the unit's material was already built
attach_if_built(current, key, built) == IF built THEN key ELSE current
\* submesh.material = (material_index, texture_combo_index), for every unit
attach_material(current, key, built) == key

TextureNames == {"", "t.blp"}
Units ==
    [skin_section_index : 0..1, material_index : 0..1, texture_combo_index : 0..1]
InitMat ==
    /\ k_textures \in SeqsUpTo(TextureNames, MaxTextures)
    /\ k_combos \in {<<>>, <<0>>, <<1, 0>>}
    /\ k_materials \in 1..2
    /\ k_submeshes \in 1..2
    /\ k_units \in SeqsUpTo(Units, MaxUnits)
    /\ k_pc = "textures"
    /\ k_ti = 0 /\ k_ui = 0
    /\ k_handles = <<>> /\ k_meshes = <<>> /\ k_map = <<>>
    /\ EarlyIdle /\ ListIdle /\ LifeIdle /\ ViewIdle

\* if orig_path.len() == 0 { continue; }
MatTextureSkip ==
    /\ k_pc = "textures" /\ k_ti < Len(k_textures)
    /\ k_textures[k_ti + 1] = ""
    /\ k_ti' = k_ti + 1
    /\ UNCHANGED <<k_textures, k_combos, k_materials, k_submeshes, k_units, k_pc, k_ui,
                   k_handles, k_meshes, k_map>>
    /\ UNCHANGED notMat

\* texture_handles.push(add_labeled_asset(Texture(i), blp_to_image(..)?))
MatTextureLoad ==
    /\ k_pc = "textures" /\ k_ti < Len(k_textures)
    /\ k_textures[k_ti + 1] # ""
    /\ k_handles' = Append(k_handles, k_ti)
    /\ k_ti' = k_ti + 1
    /\ UNCHANGED <<k_textures, k_combos, k_materials, k_submeshes, k_units, k_pc, k_ui,
                   k_meshes, k_map>>
    /\ UNCHANGED notMat

\* the submesh loop: every M2Mesh starts with material (0, 0)
MatSubmeshes ==
    /\ k_pc = "textures" /\ k_ti = Len(k_textures)
    /\ k_meshes' = [mi \in 1..k_submeshes |-> <<0, 0>>]
    /\ k_pc' = "units"
    /\ UNCHANGED <<k_textures, k_combos, k_materials, k_submeshes, k_units, k_ti, k_ui,
                   k_handles, k_map>>
    /\ UNCHANGED notMat

\* submeshes.get_mut(skin_section_index).unwrap() and
\* model.materials[material_index] on an index out of range
MatUnitPanic ==
    /\ k_pc = "units" /\ k_ui < Len(k_units)
    /\ LET unit == k_units[k_ui + 1]
           key == <<unit.material_index, unit.texture_combo_index>>
       IN  \/ unit.skin_section_index >= Len(k_meshes)
           \/ (~contains_key(k_map, key) /\ unit.material_index >= k_materials)
    /\ k_pc' = "panic"
    /\ UNCHANGED <<k_textures, k_combos, k_materials, k_submeshes, k_units, k_ti, k_ui,
                   k_handles, k_meshes, k_map>>
    /\ UNCHANGED notMat

\* a unit whose key is not in material_map: the material is built and inserted
MatUnitBuild ==
    /\ k_pc = "units" /\ k_ui < Len(k_units)
    /\ LET unit == k_units[k_ui + 1]
           key == <<unit.material_index, unit.texture_combo_index>>
       IN  /\ unit.skin_section_index < Len(k_meshes)
           /\ ~contains_key(k_map, key)
           /\ unit.material_index < k_materials
           /\ k_map' = Append(k_map,
                  <<key, [base_color_texture |->
                              base_color_texture(k_handles, unit.texture_combo_index)]>>)
           /\ k_meshes' = [k_meshes EXCEPT ![unit.skin_section_index + 1] =
                              attach_material(@, key, TRUE)]
    /\ k_ui' = k_ui + 1
    /\ UNCHANGED <<k_textures, k_combos, k_materials, k_submeshes, k_units, k_pc, k_ti,
                   k_handles>>
    /\ UNCHANGED notMat

\* a unit whose key is in material_map already
MatUnitReuse ==
    /\ k_pc = "units" /\ k_ui < Len(k_units)
    /\ LET unit == k_units[k_ui + 1]
           key == <<unit.material_index, unit.texture_combo_index>>
       IN  /\ unit.skin_section_index < Len(k_meshes)
           /\ contains_key(k_map, key)
           /\ k_meshes' = [k_meshes EXCEPT ![unit.skin_section_index + 1] =
                              attach_material(@, key, FALSE)]
    /\ k_ui' = k_ui + 1
    /\ UNCHANGED <<k_textures, k_combos, k_materials, k_submeshes, k_units, k_pc, k_ti,
                   k_handles, k_map>>
    /\ UNCHANGED notMat

\* mesh_handles.insert(i, submeshes); material_handles.push(material_map); Ok
MatReturn ==
    /\ k_pc = "units" /\ k_ui = Len(k_units)
    /\ k_pc' = "done"
    /\ UNCHANGED <<k_textures, k_combos, k_materials, k_submeshes, k_units, k_ti, k_ui,
                   k_handles, k_meshes, k_map>>
    /\ UNCHANGED notMat

NextMat ==
    \/ MatTextureSkip \/ MatTextureLoad \/ MatSubmeshes
    \/ MatUnitPanic \/ MatUnitBuild \/ MatUnitReuse \/ MatReturn

SpecMat == InitMat /\ [][NextMat]_vars

\* ------------------------------------------------------------------------
\* load() and read_file() on one MPQFile (mpq.rs:241-278, 328-347)
\* ------------------------------------------------------------------------
\* how far read_file gets on MPQFile self for a name that has an entry in the
\* hash table (found) or has none: get_hash_table_entry tests hash_table and
\* looks the name up, then read_file tests header and block_table
read_file_loaded(self, found) ==
    IF self.hash_table = NONE THEN "NotLoaded"
    ELSE IF ~found THEN "FileNotFound"
    ELSE IF self.header = NONE \/ self.block_table = NONE THEN "NotLoaded"
    ELSE "Reads"

InitLife ==
    /\ file \in Files
    /\ mpq_header = NONE
    /\ mpq_hash_table = NONE
    /\ mpq_block_table = NONE
    /\ load_result = "none"
    /\ load_calls = 0
    /\ ext_reads = 0
    /\ life_read = NONE /\ life_ok = FALSE /\ life_calls = 0
    /\ CipherIdle /\ HashIdle /\ DecryptIdle /\ CollIdle /\ CacheIdle /\ M2Idle
    /\ ReadIdle /\ NamesIdle /\ MeshIdle /\ ParseIdle /\ BlpIdle
    /\ ListIdle /\ MatIdle /\ ViewIdle

LifeLoad ==
    /\ life_calls < MaxLifeCalls
    /\ load_result # "Abort"
    /\ LET r == load([header |-> mpq_header, hash_table |-> mpq_hash_table,
                      block_table |-> mpq_block_table], file)
       IN  /\ mpq_header' = r.self.header
           /\ mpq_hash_table' = r.self.hash_table
           /\ mpq_block_table' = r.self.block_table
           /\ load_result' = r.result
           /\ ext_reads' = r.ext
           /\ life_ok' = (life_ok \/ r.result = "Ok")
    /\ load_calls' = load_calls + 1
    /\ life_calls' = life_calls + 1
    /\ UNCHANGED <<file, life_read>>
    /\ UNCHANGED notLife

LifeReadFile ==
    /\ life_calls < MaxLifeCalls
    /\ load_result # "Abort"
    /\ \E found \in BOOLEAN :
          life_read' = Some([result |->
                                read_file_loaded([header |-> mpq_header,
                                                  hash_table |-> mpq_hash_table,
                                                  block_table |-> mpq_block_table], found),
                             after_ok |-> life_ok])
    /\ life_calls' = life_calls + 1
    /\ UNCHANGED <<loadVars, life_ok>>
    /\ UNCHANGED notLife

NextLife == LifeLoad \/ LifeReadFile

SpecLife == InitLife /\ [][NextLife]_vars

\* ------------------------------------------------------------------------
\* The model viewer: draw_ui and spawn_model (model_viewer/src/main.rs)
\* ------------------------------------------------------------------------
\* the rows of the model list
ModelRows == {"a.m2", "b.m2"}

\* draw_ui (main.rs:282-308): the selection a click on a row asks for
new_selection(selected, row) == IF selected = row THEN "" ELSE row

\* the assets M2Loader::load returns Ok with, by the meshes and materials of
\* skin 0: a model without skins, a sub-mesh whose material key a texture unit
\* built, a sub-mesh that no unit names and that keeps (0, 0)
ViewAssets ==
    {[meshes |-> <<>>, materials |-> <<>>]} \cup
    {[meshes |-> MapPut(<<>>, 0, <<<<0, 0>>>>), materials |-> <<keys>>] :
        keys \in {{<<0, 0>>}, {}}}

\* spawn_model on the asset (main.rs:201, 214): m2.meshes[&skin_id] and
\* m2.materials[skin_id][&mesh.material] with skin_id 0 panic on a missing key
spawn_panics(asset) ==
    IF 0 \notin DOMAIN asset.meshes THEN TRUE
    ELSE \E k \in DOMAIN asset.meshes[0] : asset.meshes[0][k] \notin asset.materials[1]

InitView ==
    /\ v_selected = "" /\ v_m2 = NONE /\ v_entity = NONE /\ v_world = {}
    /\ v_assets = {} /\ v_app = "running" /\ v_spawned = 0 /\ v_clicks = 0
    /\ EarlyIdle /\ ListIdle /\ MatIdle /\ LifeIdle

\* draw_ui on a frame where a row is clicked (main.rs:324-335), with its
\* despawn command applied
ClickRow(row) ==
    /\ v_app = "running"
    /\ v_clicks < MaxClicks
    /\ LET selection == new_selection(v_selected, row)
       IN  IF selection # v_selected
           THEN /\ v_selected' = selection
                /\ v_entity' = NONE
                /\ v_world' = IF IsSome(v_entity)
                              THEN {e \in v_world : e.id # v_entity[1]}
                              ELSE v_world
                /\ v_m2' = IF selection # "" THEN Some(selection) ELSE v_m2
           ELSE UNCHANGED <<v_selected, v_entity, v_world, v_m2>>
    /\ v_clicks' = v_clicks + 1
    /\ UNCHANGED <<v_assets, v_app, v_spawned>>
    /\ UNCHANGED notView

ClickSelect == \E row \in ModelRows : v_selected # row /\ ClickRow(row)
ClickDeselect == \E row \in ModelRows : v_selected = row /\ ClickRow(row)

\* the asset server finishes the load of the handle in M2Component.m2
AssetLoaded ==
    /\ v_app = "running"
    /\ IsSome(v_m2)
    /\ \A a \in v_assets : a.path # v_m2[1]
    /\ \E asset \in ViewAssets :
          v_assets' = v_assets \cup {[path |-> v_m2[1], asset |-> asset]}
    /\ UNCHANGED <<v_selected, v_m2, v_entity, v_world, v_app, v_spawned, v_clicks>>
    /\ UNCHANGED notView

\* m2s.get_mut(handle): the asset of the component's handle, once loaded
AssetOf(path) == {a.asset : a \in {b \in v_assets : b.path = path}}

\* spawn_model (main.rs:190-222) on a frame where it spawns, with its spawn
\* command applied
SpawnModel ==
    /\ v_app = "running"
    /\ v_spawned < MaxSpawns
    /\ ~(v_m2 = NONE \/ IsSome(v_entity))
    /\ \E asset \in AssetOf(v_m2[1]) :
          /\ ~spawn_panics(asset)
          /\ v_world' = v_world \cup {[id |-> v_spawned + 1, model |-> v_m2[1]]}
          /\ v_entity' = Some(v_spawned + 1)
          /\ v_spawned' = v_spawned + 1
    /\ UNCHANGED <<v_selected, v_m2, v_assets, v_app, v_clicks>>
    /\ UNCHANGED notView

\* spawn_model on an asset without the meshes of skin 0, or with a sub-mesh
\* whose material key is not in materials[0]: the index panics before
\* m2component.entity is set, and the panic of a system ends the app
SpawnModelPanic ==
    /\ v_app = "running"
    /\ ~(v_m2 = NONE \/ IsSome(v_entity))
    /\ \E asset \in AssetOf(v_m2[1]) : spawn_panics(asset)
    /\ v_app' = "panicked"
    /\ UNCHANGED <<v_selected, v_m2, v_entity, v_world, v_assets, v_spawned, v_clicks>>
    /\ UNCHANGED notView

NextView ==
    ClickSelect \/ ClickDeselect \/ AssetLoaded \/ SpawnModel \/ SpawnModelPanic

SpecView == InitView /\ [][NextView]_vars

\* ========================================================================
\* Properties
\* ========================================================================

\* ---- C1 ---------------------------------------------------------------
NormalizedNamesOf(a) ==
    {Normalize(coll_archives[a][i]) : i \in DOMAIN coll_archives[a]}
ArchivesWith(N) == {a \in DOMAIN coll_archives : N \in NormalizedNamesOf(a)}
LastArchiveWith(N) ==
    CHOOSE a \in ArchivesWith(N) : \A b \in ArchivesWith(N) : b <= a
AllNormalizedNames == UNION {NormalizedNamesOf(a) : a \in DOMAIN coll_archives}

\* C1: once the collection is loaded, every normalized name that more than one
\* archive lists is mapped to the last archive in collection order that lists
\* it, and a read of such a name returns the bytes that archive stores
C1_LastArchiveWins ==
    coll_pc = "ready" =>
        /\ \A N \in AllNormalizedNames :
              Cardinality(ArchivesWith(N)) > 1 =>
                  /\ N \in DOMAIN coll_map
                  /\ coll_map[N].archive = LastArchiveWith(N)
        /\ (/\ coll_read # <<>>
            /\ Cardinality(ArchivesWith(Normalize(coll_read[1]))) > 1)
           => /\ coll_read[2].kind = "Ok"
              /\ coll_read[2].bytes = <<LastArchiveWith(Normalize(coll_read[1]))>>

\* a name listed by at least two archives, the last of them not the first of
\* the collection, has been read and gave the last one's bytes
C1_Witness ==
    /\ coll_pc = "ready"
    /\ coll_read # <<>>
    /\ Cardinality(ArchivesWith(Normalize(coll_read[1]))) >= 2
    /\ coll_read[2].kind = "Ok"
    /\ coll_read[2].archive >= 2
    /\ coll_read[2].bytes = <<coll_read[2].archive>>

\* ---- C2 ---------------------------------------------------------------
DecodersOf(n) == {t \in CacheThreads : c_pc[t] = "decode" /\ c_req[t] = n}

\* C2: between evictions at most one decode is stored for a name and at most
\* one is in flight, none while the name is cached; every artifact returned
\* for a name since its last eviction is the cached one; and a request is
\* kept from taking its lock only by the lock of its own name
C2_SingleDecodePerName ==
    /\ \A n \in CacheNames :
          /\ c_decodes[n] <= 1
          /\ Cardinality(DecodersOf(n)) <= 1
          /\ IsSome(cache[n]) => (DecodersOf(n) = {} /\ c_decodes[n] = 1)
    /\ \A t \in CacheThreads :
          (/\ c_got[t] # <<>>
           /\ c_got[t].artifact # 0
           /\ c_got[t].epoch = c_epoch[c_got[t].name])
          => cache[c_got[t].name] = Some(c_got[t].artifact)
    /\ \A t \in CacheThreads :
          (c_pc[t] = "acquire" /\ c_lock[c_req[t]] = 0) => ENABLED CacheAcquire(t)

\* two threads have been given the same artifact of one name, decoded once,
\* while a decode of another name is in flight
C2_Witness ==
    \E t1, t2 \in CacheThreads :
        /\ t1 # t2
        /\ c_got[t1] # <<>> /\ c_got[t2] # <<>>
        /\ c_got[t1] = c_got[t2]
        /\ c_got[t1].artifact # 0
        /\ c_decodes[c_got[t1].name] = 1
        /\ \E t \in CacheThreads : c_pc[t] = "decode" /\ c_req[t] # c_got[t1].name

\* ---- C3 ---------------------------------------------------------------
\* every one of the views skins has its entry in skins, meshes and materials
AssetComplete(asset) ==
    \A i \in 0..(NumSkins(m2_model) - 1) :
        /\ (i + 1) \in DOMAIN asset.skins
        /\ asset.skins[i + 1] = i
        /\ i \in DOMAIN asset.meshes
        /\ (i + 1) \in DOMAIN asset.materials

\* a texture or skin step of this load fails
M2InputFails ==
    \/ \E i \in DOMAIN m2_model.textures :
          m2_model.textures[i] \in {"missing", "badblp", "unsupported"}
    \/ \E i \in 1..NumSkins(m2_model) : m2_skins[i].status # "ok"

\* C3: the asset the store shows and the asset M2Asset::new returns are
\* complete for all views skins, and a load with a failing step returns an
\* error without an asset and stores nothing
C3_ModelLoadAtomic ==
    /\ IsSome(m2_stored) => AssetComplete(m2_stored[1])
    /\ (IsSome(m2_result) /\ IsSome(m2_result[1].asset))
          => AssetComplete(m2_result[1].asset[1])
    /\ (m2_pc = "done" /\ (M2InputFails \/ m2_result[1].kind # "Ok"))
          => /\ m2_result[1].kind \in {"Err", "Panic"}
             /\ m2_result[1].asset = NONE
             /\ m2_stored = NONE

\* a model with two or more skins and a texture is stored
C3_Witness ==
    /\ IsSome(m2_stored)
    /\ NumSkins(m2_model) >= 2
    /\ Len(m2_stored[1].skins) = NumSkins(m2_model)
    /\ Len(m2_stored[1].textures) >= 1

\* ---- C4 ---------------------------------------------------------------
\* C4: the initialising closure is started at most once, and once the cell is
\* complete it stays complete with the same table whatever a thread does
C4_TableBuiltOnce ==
    [][/\ builds' <= 1
       /\ lazy_state = "complete"
             => (lazy_state' = "complete" /\ lazy_value' = lazy_value)]_vars

\* every thread made its first call before the table was complete, one of
\* them built it, and all are about to read the finished table
C4_Witness ==
    /\ lazy_state = "complete"
    /\ builds = 1
    /\ \A t \in Threads : t_pc[t] = "read" /\ t_calls[t] = 0

\* ---- C5 ---------------------------------------------------------------
\* the table of the recurrence: with p = 5 * i + slot / 256 the entry at
\* slot + i has the low 16 bits of seed number 2p + 1 as its high half and
\* the low 16 bits of seed number 2p + 2 as its low half
ClaimTable ==
    [k \in 1..1280 |->
        LET p == 5 * ((k - 1) % 256) + ((k - 1) \div 256)
        IN  <<TABLE_SEEDS[2 * p + 2] % 65536, TABLE_SEEDS[2 * p + 1] % 65536>>]

\* C5: no seed * 125 + 3 leaves 32 bits, and the finished table is the table
\* of the recurrence, with 1285056048 at 65, 1010723398 at 806 and
\* 1929586796 at 1279
C5_TableValues ==
    /\ b_max \div 65536 < 65536
    /\ lazy_state = "complete" =>
          /\ Len(lazy_value) = 1280
          /\ \A k \in 1..1280 : lazy_value[k] = ClaimTable[k]
          /\ lazy_value[65 + 1] = U32(1285056048)
          /\ lazy_value[806 + 1] = U32(1010723398)
          /\ lazy_value[1279 + 1] = U32(1929586796)

\* the table is complete and a thread has read entry 1279 of it
C5_Witness ==
    /\ lazy_state = "complete"
    /\ b_max > 0
    /\ \E t \in Threads : t_seen[t] = <<1279, U32(1929586796)>>

\* ---- C6 ---------------------------------------------------------------
\* the recurrence on 32-bit values: s1 = table[(kind << 8) + c] XOR (s1 + s2),
\* s2 = c + s1 + s2 + (s2 << 5) + 3, all modulo 2^32
ClaimHashStep(kind, c, s1, s2) ==
    Only({<<n1, AddL(AddL(AddL(AddL(U32(c), n1), s2), ShlL(s2, 5)), U32(3))>> :
             n1 \in {XorL(ENCRYPTION_TABLE[(kind * 256 + c) + 1], AddL(s1, s2))}})

RECURSIVE ClaimHashFrom(_, _, _, _)
ClaimHashFrom(name, kind, i, s) ==
    IF i > Len(name) THEN s[1]
    ELSE Only({ClaimHashFrom(name, kind, i + 1, next) :
                  next \in {ClaimHashStep(kind, name[i], s[1], s[2])}})

\* the uppercased name, as UTF-8: the names hashed are ASCII text, whose
\* letters a..z become A..Z, or one of a few names with other letters, whose
\* uppercase is written out: U+00C9, "SS", U+0178, "STRASSE.M2", U+0100,
\* "H" with U+0331, U+10400
ClaimUppercased(name) ==
    IF name = STR_E_ACUTE THEN <<195, 137>>
    ELSE IF name = STR_SHARP_S THEN <<83, 83>>
    ELSE IF name = STR_Y_DIAERESIS THEN <<197, 184>>
    ELSE IF name = STR_STRASSE_M2 THEN <<83, 84, 82, 65, 83, 83, 69, 46, 77, 50>>
    ELSE IF name = STR_A_MACRON THEN <<196, 128>>
    ELSE IF name = STR_H_LINE_BELOW THEN <<72, 204, 177>>
    ELSE IF name = STR_DESERET_LONG_I THEN <<240, 144, 144, 128>>
    ELSE [k \in DOMAIN name |-> IF IsLower(name[k]) THEN name[k] - 32 ELSE name[k]]

\* s1 = 0x7FED7FED, s2 = 0xEEEEEEEE
ClaimHash(name, kind) ==
    ClaimHashFrom(ClaimUppercased(name), kind, 1, <<U32(2146271213), <<61166, 61166>>>>)

HashFollowsRecurrence ==
    /\ h_pc # "start" => h_result = ClaimHash(h_name, h_kind)
    /\ (h_pc = "compared" /\ h_change = "same") => h_other_result = h_result
    /\ (h_pc # "start" /\ h_name = STR_HASH_TABLE /\ h_kind = HASH_TABLE)
          => h_result = KEY_HASH_TABLE

\* C6 as amended: hash returns the s1 of the recurrence, the same for the
\* same (s, kind), 0xC3AF3770 for "(hash table)" and 0xF9E80B91 (4192734097)
\* for "THE QUICK BROWN FOX", both with kind TABLE
C6_HashValues ==
    /\ HashFollowsRecurrence
    /\ (h_pc # "start" /\ h_name = STR_QUICK_FOX /\ h_kind = HASH_TABLE)
          => h_result = <<2961, 63976>>

\* C6 as stated: the same with 0xF9D6B191 for "THE QUICK BROWN FOX"
C6_AsStated ==
    /\ HashFollowsRecurrence
    /\ (h_pc # "start" /\ h_name = STR_QUICK_FOX /\ h_kind = HASH_TABLE)
          => h_result = <<45457, 63958>>

\* "THE QUICK BROWN FOX" has been hashed with kind TABLE, twice
C6_Witness ==
    /\ h_pc = "compared"
    /\ h_change = "same"
    /\ h_name = STR_QUICK_FOX
    /\ h_kind = HASH_TABLE
    /\ h_result = <<2961, 63976>>

\* ---- C7 ---------------------------------------------------------------
\* C7: the hash of a name is unchanged when one of its ASCII letters changes
\* case and when one of its path separators is replaced by the other
C7_CaseAndSeparatorInvariant ==
    (h_pc = "compared" /\ h_change \in {"case", "separator"})
        => h_other_result = h_result

\* ---- C8 ---------------------------------------------------------------
\* the key schedule on 32-bit values
ClaimDecryptStep(word, s1, s2) ==
    Only({
      Only({[s1 |-> OrL(AddL(ShlL(NotL(s1), 21), U32(286331153)), ShrL(s1, 11)),
             s2 |-> AddL(AddL(AddL(out, s2a), ShlL(s2a, 5)), U32(3)),
             out |-> out] :
            out \in {XorL(word, AddL(s1, s2a))}}) :
      s2a \in {AddL(s2, ENCRYPTION_TABLE[(1024 + (s1[1] % 256)) + 1])}})

RECURSIVE ClaimDecryptFrom(_, _, _, _)
ClaimDecryptFrom(data, n, s1, s2) ==
    IF 4 * n >= Len(data) THEN <<>>
    ELSE Only({<<st.out[1] % 256, st.out[1] \div 256,
                 st.out[2] % 256, st.out[2] \div 256>>
               \o ClaimDecryptFrom(data, n + 1, st.s1, st.s2) :
                  st \in {ClaimDecryptStep(
                            <<data[4 * n + 1] + 256 * data[4 * n + 2],
                              data[4 * n + 3] + 256 * data[4 * n + 4]>>, s1, s2)}})

ClaimDecrypt(data, key) == ClaimDecryptFrom(data, 0, key, <<61166, 61166>>)

\* C8: for input of a length that is a multiple of 4, decrypt returns the
\* output of the key schedule, of the same length, and the test vector
\* decrypts under key 0xC3AF3770 to FF B7 8D DB 14 A3 A6 A1 00 00 00 00 2D 53 00 00
C8_DecryptFollowsSchedule ==
    /\ (d_pc = "done" /\ Len(d_data) % 4 = 0)
          => /\ d_result.kind = "Ok"
             /\ Len(d_result.bytes) = Len(d_data)
             /\ d_result.bytes = ClaimDecrypt(d_data, d_key)
    /\ (d_pc = "done" /\ d_data = TEST_DECRYPT_DATA /\ d_key = KEY_HASH_TABLE)
          => d_result.bytes = <<255, 183, 141, 219, 20, 163, 166, 161,
                                0, 0, 0, 0, 45, 83, 0, 0>>

\* ---- C9 ---------------------------------------------------------------
\* C9: decrypt returns an error, and no bytes, for input of a length that is
\* not a multiple of 4
C9_DecryptRejectsUnaligned ==
    (d_pc = "done" /\ Len(d_data) % 4 # 0)
        => (d_result.kind = "Err" /\ d_result.bytes = <<>>)

\* ---- C10 --------------------------------------------------------------
\* C10: the first load of a file whose first four bytes are not the magic, or
\* whose header has a format-version above 1, returns an error; a load that
\* returns Ok read format-version 0 or 1; and the three extended fields are
\* read exactly when the format-version read is 1
C10_LoadRejectsBadHeader ==
    load_calls = 1 =>
        /\ (file.exists /\ file.length # "short" /\ file.magic # MAGIC_STRING)
              => load_result # "Ok"
        /\ (file.exists /\ file.length \in {"header", "full"}
            /\ file.format_version > 1)
              => load_result # "Ok"
        /\ load_result = "Ok" => file.format_version \in {0, 1}
        /\ IsSome(mpq_header) => (ext_reads = 3 <=> file.format_version = 1)

\* ---- consistency of the model with itself and with the repository's tests
\* the stepwise build and the closed form of the table agree
CipherBuildMatches == lazy_state = "complete" => lazy_value = ENCRYPTION_TABLE

\* without overflow checks decrypt follows the key schedule
DecryptWrappingFollowsSchedule == ~d_checks => C8_DecryptFollowsSchedule

\* case alone leaves the hash unchanged
HashCaseInvariant ==
    (h_pc = "compared" /\ h_change = "case") => h_other_result = h_result

\* what load does about the magic and the extended fields
LoadMagicAndExtended ==
    load_calls = 1 =>
        /\ (file.exists /\ file.length # "short" /\ file.magic # MAGIC_STRING)
              => load_result = "InvalidFile"
        /\ IsSome(mpq_header) => (ext_reads = 3 <=> file.format_version = 1)

\* ------------------------------------------------------------------------
\* read_file
\* ------------------------------------------------------------------------
ReadBlock == r_archive[1].block_table[1]
ReadDone == IsSome(r_result)
ReadEntryMatches == IsSome(r_archive[1].hash_table) /\ r_name \in {FILE_A, FILE_A_UPPER}
ReadReachesBlock ==
    ReadEntryMatches /\ r_archive[1].hash_table[1].block_table_index = 0

\* C11: reading a name fails with FileNotFound and returns no bytes both when
\* no hash-table entry matches the name and when the matched entry's block
\* lacks the EXISTS flag
C11_NotFound ==
    ReadDone =>
        /\ ~ReadEntryMatches =>
              /\ r_result[1].kind = "Err"
              /\ r_result[1].error = "FileNotFound"
              /\ r_result[1].bytes = <<>>
        /\ (ReadReachesBlock /\ "EXISTS" \notin ReadBlock.flags) =>
              /\ r_result[1].kind = "Err"
              /\ r_result[1].error = "FileNotFound"
              /\ r_result[1].bytes = <<>>

\* what holds of the two cases in the code: no matching entry is FileNotFound,
\* a block without EXISTS is an error too, and neither returns bytes
ReadMissingFails ==
    ReadDone =>
        /\ ~ReadEntryMatches =>
              r_result[1].kind = "Err" /\ r_result[1].error = "FileNotFound"
        /\ (ReadReachesBlock /\ "EXISTS" \notin ReadBlock.flags) =>
              r_result[1].kind = "Err" /\ r_result[1].bytes = <<>>

\* C12: every successful read_file returns exactly block.size bytes
C12_LengthIsLogicalSize ==
    (ReadDone /\ r_result[1].kind = "Ok") =>
        Len(r_result[1].bytes) = ReadBlock.size

\* C13: a unit that is to be decompressed and whose leading byte is not a
\* supported code makes the read fail with an unsupported-compression error
\* naming that byte; its bytes are never returned
C13_UnsupportedCompressionFails ==
    ReadDone =>
        \A k \in DOMAIN r_result[1].units :
            r_result[1].units[k].lead # ZLIB =>
                /\ r_result[1].kind = "Err"
                /\ r_result[1].error \in {"UnsupportedCompression", "UnknownCompression"}
                /\ r_result[1].byte = r_result[1].units[k].lead

\* the single-unit path does fail on every leading byte but zlib's
SingleUnitUnsupportedFails ==
    (ReadDone /\ ~r_result[1].multi) =>
        \A k \in DOMAIN r_result[1].units :
            r_result[1].units[k].lead # ZLIB =>
                /\ r_result[1].kind = "Err"
                /\ r_result[1].error \in {"UnsupportedCompression", "UnknownCompression"}
                /\ r_result[1].byte = r_result[1].units[k].lead

\* the ceiling of size / sector_size
CeilDiv(a, b) == (a + b - 1) \div b

\* the sector shift is one for which 512 << sector_shift is below 2^31
ReadShiftPlain == r_archive[1].sector_shift < 22

\* C20: a multi-sector read computes ceil(size / sector_size) sectors with
\* sector_size = 512 << sector_shift and reads exactly sectors + 1 offsets
C20_SectorCountIsCeiling ==
    (ReadDone /\ r_result[1].multi /\ ReadShiftPlain) =>
        LET sectors == CeilDiv(ReadBlock.size, 512 * Pow2(r_archive[1].sector_shift))
        IN  /\ r_result[1].sectors = sectors
            /\ r_result[1].positions # <<>> => Len(r_result[1].positions) = sectors + 1

\* the count of the code: one more than the floor, and that many + 1 offsets
SectorCountIsFloorPlusOne ==
    (ReadDone /\ r_result[1].multi /\ ReadShiftPlain) =>
        LET sectors == (ReadBlock.size \div (512 * Pow2(r_archive[1].sector_shift))) + 1
        IN  /\ r_result[1].sectors = sectors
            /\ r_result[1].positions # <<>> => Len(r_result[1].positions) = sectors + 1


\* ------------------------------------------------------------------------
\* Skin file names
\* ------------------------------------------------------------------------
\* i as two decimal digits; P without its final three characters, a
\* character being the bytes of one UTF-8 sequence
TwoDigits(i) == <<48 + (i \div 10), 48 + (i % 10)>>
RECURSIVE WithoutFinalChars(_, _)
WithoutFinalChars(P, count) ==
    IF count = 0 \/ P = <<>> THEN P
    ELSE IF P[Len(P)] >= 128 /\ P[Len(P)] <= 191 /\ Len(P) > 1
    THEN WithoutFinalChars(SubSeq(P, 1, Len(P) - 1), count)
    ELSE WithoutFinalChars(SubSeq(P, 1, Len(P) - 1), count - 1)
ClaimSkinName(P, i) == WithoutFinalChars(P, 3) \o TwoDigits(i) \o DOT_SKIN
ClaimSkinNames(P, n) == [k \in 1..n |-> ClaimSkinName(P, k - 1)]
LogicalPath == AssetPathParse(n_path).path

\* P ends in three one-byte characters
ClaimPathHasExtension ==
    /\ Len(LogicalPath) >= 3
    /\ \A k \in (Len(LogicalPath) - 2)..Len(LogicalPath) : LogicalPath[k] < 128

\* C14: a model with logical path P and n views has exactly n skins
\* requested, the i-th named P minus its last three characters, then i as
\* two digits, then ".skin"; from_asset (in the loop of M2Asset::new),
\* skin_files and load_from_mpq (on a model file that was read and parsed)
\* give the same names
C14_SkinNames ==
    /\ n_asset_pc # "panicked"
    /\ n_asset_pc \in {"done", "failed"} => Len(n_from_asset) = n_views
    /\ \A k \in DOMAIN n_from_asset :
          /\ n_from_asset[k].path = ClaimSkinName(LogicalPath, k - 1)
          /\ n_from_asset[k].source = AssetPathParse(n_path).source
    /\ IsSome(n_skin_files) =>
          /\ n_skin_files[1].kind = "Ok"
          /\ n_skin_files[1].files = ClaimSkinNames(LogicalPath, n_views)
    /\ (IsSome(n_load_from_mpq) /\ n_mpq.model \notin {"missing", "unparsed"}) =>
          /\ n_load_from_mpq[1].kind # "Panic"
          /\ n_load_from_mpq[1].names = ClaimSkinNames(LogicalPath, n_views)

\* what the three derivations do: they cut three bytes, which is the claimed
\* name for a path that ends in three one-byte characters; the skins are
\* named in order, all n of them when every file loads, and up to the first
\* one that does not load otherwise
SkinNamesWhereCut ==
    /\ Len(n_from_asset) <= n_views
    /\ ClaimPathHasExtension =>
          /\ n_asset_pc # "panicked"
          /\ n_asset_pc = "done" => Len(n_from_asset) = n_views
          /\ \A k \in DOMAIN n_from_asset :
                /\ n_from_asset[k].path = ClaimSkinName(LogicalPath, k - 1)
                /\ n_from_asset[k].source = AssetPathParse(n_path).source
          /\ IsSome(n_skin_files) =>
                /\ n_skin_files[1].kind = "Ok"
                /\ n_skin_files[1].files = ClaimSkinNames(LogicalPath, n_views)
          /\ IsSome(n_load_from_mpq) =>
                /\ n_load_from_mpq[1].kind # "Panic"
                /\ Len(n_load_from_mpq[1].names) <= n_views
                /\ n_load_from_mpq[1].kind = "Ok" =>
                      Len(n_load_from_mpq[1].names) = n_views
                /\ \A k \in DOMAIN n_load_from_mpq[1].names :
                      n_load_from_mpq[1].names[k] = ClaimSkinName(LogicalPath, k - 1)

\* a path too short to be cut, or cut inside a character, ends each
\* derivation in a panic
ShortPathPanics ==
    WithoutLast3(LogicalPath) = NONE =>
        /\ n_from_asset = <<>>
        /\ n_asset_pc \in {"loop", "panicked", "done"}
        /\ IsSome(n_skin_files) => n_skin_files[1].kind = "Panic"
        /\ (IsSome(n_load_from_mpq) /\ n_mpq.model \notin {"missing", "unparsed"}) =>
              n_load_from_mpq[1].kind = "Panic"



\* ------------------------------------------------------------------------
\* Meshes
\* ------------------------------------------------------------------------
\* (x, y_src, z_src) |-> (x, z_src, -y_src)
ClaimFixUp(v) == <<v[1], v[3], 0 - v[2]>>
Meshed == g_stage = "meshed" /\ g_meshes.kind = "Ok"
EmittedMeshes == {g_meshes.meshes[k] : k \in DOMAIN g_meshes.meshes}

FixedOnce(mesh) ==
    \A k \in DOMAIN mesh.positions :
        /\ mesh.positions[k] = ClaimFixUp(g_vertices[mesh.origin[k] + 1].position)
        /\ ~mesh.computed_normals
        /\ mesh.normals[k] = ClaimFixUp(g_vertices[mesh.origin[k] + 1].normal)

\* C15: every emitted position and normal is (x, z_src, -y_src) of its source
\* vertex, on every path from the file to a mesh
C15_AxisFixUpOnce == Meshed => \A mesh \in EmittedMeshes : FixedOnce(mesh)

\* every path but to_mesh4 applies the fix-up once
AxisFixUpOnceExceptMesh4 ==
    (Meshed /\ g_pipeline # "M2::to_mesh4") => \A mesh \in EmittedMeshes : FixedOnce(mesh)

\* C16: every index of a sub-mesh emitted by M2Asset::new is below the number
\* of vertices of the arrays attached to that mesh
C16_IndicesInRange ==
    (Meshed /\ g_pipeline = "M2Asset") =>
        \A mesh \in EmittedMeshes :
            \A k \in DOMAIN mesh.indices : mesh.indices[k] < Len(mesh.positions)

\* the indices M2Asset::new emits are the values of skin.indices, whatever the
\* number of vertices
AssetIndicesAreSkinIndices ==
    (Meshed /\ g_pipeline = "M2Asset") =>
        \A mesh \in EmittedMeshes :
            \A k \in DOMAIN mesh.indices :
                \E j \in DOMAIN g_skin[1].indices : mesh.indices[k] = g_skin[1].indices[j]


\* ------------------------------------------------------------------------
\* Skin and texture failures in M2Asset::new
\* ------------------------------------------------------------------------
M2SkinFails == \E i \in 1..NumSkins(m2_model) : SkinFails(m2_skins[i].status)
M2TextureFails == \E i \in DOMAIN m2_model.textures : TextureFails(m2_model.textures[i])

\* C17: a skin that cannot be fetched or decoded fails the load; a texture
\* that cannot be fetched or decoded does not: the load succeeds and the
\* failed texture has no handle among the asset's textures
C17_TextureFailureRecoverable ==
    m2_pc = "done" =>
        /\ M2SkinFails => m2_result[1].kind = "Err"
        /\ ~M2SkinFails =>
              /\ m2_result[1].kind = "Ok"
              /\ \A i \in DOMAIN m2_model.textures :
                    TextureFails(m2_model.textures[i]) =>
                        \A k \in DOMAIN m2_result[1].asset[1].textures :
                            m2_result[1].asset[1].textures[k] # i - 1

\* in the code both kinds of failure fail the load: a texture failure returns
\* the error, a skin failure does unless an earlier skin aborted the load
SkinAndTextureFailuresFatal ==
    m2_pc = "done" =>
        /\ M2TextureFails => m2_result[1].kind = "Err"
        /\ M2SkinFails => m2_result[1].kind \in {"Err", "Panic"}


\* ------------------------------------------------------------------------
\* loader::load
\* ------------------------------------------------------------------------
ParseDone == IsSome(p_result)
FirstU32 == CursorReadU32(p_buffer[1], 0)
\* the buffer is an MD21 chunk holding a whole legacy header, then any chunks
WrapsLegacyHeader ==
    /\ FirstU32 = Some(MD21)
    /\ Len(p_buffer[1]) >= 8 + MD20_HEADER_BYTES + 8
    /\ CursorReadU32(p_buffer[1], 8) = Some(MD20)
    /\ CursorReadU32(p_buffer[1], 4)[1] + 8 <= Len(p_buffer[1])

\* C18: a buffer starting with MD20 is parsed as legacy payload at offset 0,
\* one starting with MD21 is walked chunk by chunk and yields the payload of
\* its MD21 chunk, any other first u32 is an invalid-magic error, and load
\* returns a model or an error for every input
C18_AcceptsBothLayouts ==
    ParseDone =>
        /\ p_result[1].kind \in {"Ok", "Err"}
        /\ (FirstU32 = Some(MD20) /\ Len(p_buffer[1]) >= MD20_HEADER_BYTES + 8) =>
              /\ p_result[1].kind = "Ok"
              /\ p_result[1].data[1].offset = 0
        /\ WrapsLegacyHeader =>
              /\ p_result[1].kind = "Ok"
              /\ p_result[1].data[1].offset = 8
              /\ p_result[1].data[1].view_count = CursorReadU32(p_buffer[1], 8 + 68)[1]
        /\ (IsSome(FirstU32) /\ FirstU32[1] \notin {MD20, MD21}) =>
              /\ p_result[1].kind = "Err"
              /\ p_result[1].error \in {"InvalidM2ChunkType", "InvalidM2Magic",
                                        "InvalidMagicValue"}

\* what load does: the legacy layout is decoded; a buffer starting with MD21
\* is an error; one starting with another chunk tag panics; any other
\* first u32 is the error of the failed conversion to ChunkType
LoadDecodesLegacyOnly ==
    ParseDone =>
        /\ (FirstU32 = Some(MD20) /\ Len(p_buffer[1]) >= MD20_HEADER_BYTES + 8) =>
              /\ p_result[1].kind = "Ok"
              /\ p_result[1].data[1].offset = 0
              /\ p_result[1].data[1].view_count = CursorReadU32(p_buffer[1], 68)[1]
        /\ FirstU32 = Some(MD21) =>
              /\ p_result[1].kind = "Err"
              /\ p_result[1].error = "InvalidMagicValue"
              /\ p_result[1].value = MD21
        /\ (IsSome(FirstU32) /\ FirstU32[1] \in ChunkType \ {MD20, MD21}) =>
              p_result[1].kind = "Panic"
        /\ (IsSome(FirstU32) /\ FirstU32[1] \notin ChunkType) =>
              /\ p_result[1].kind = "Err"
              /\ p_result[1].error = "InvalidM2ChunkType"
        /\ FirstU32 = NONE => (p_result[1].kind = "Err" /\ p_result[1].error = "Io")


\* ------------------------------------------------------------------------
\* blp_to_image
\* ------------------------------------------------------------------------
BlpDone == IsSome(i_result)
ClaimFormat(content) ==
    CASE content = "Dxt1" -> Some("Bc1RgbaUnorm")
      [] content = "Dxt3" -> Some("Bc2RgbaUnorm")
      [] content = "Dxt5" -> Some("Bc3RgbaUnorm")
      [] OTHER -> NONE
RoundUp4(n) == ((n + 3) \div 4) * 4
\* everything the claim says of the result except the width and height
BlpSelectionAndShape ==
    LET blp == i_blp[1]
        res == i_result[1]
    IN  /\ res.kind \in {"Ok", "Err"}
        /\ (res.kind = "Ok") = IsSome(ClaimFormat(blp.content))
        /\ res.kind = "Err" =>
              (res.error = "unsupported texture format" /\ res.image = NONE)
        /\ res.kind = "Ok" =>
              /\ res.image[1].format = ClaimFormat(blp.content)[1]
              /\ res.image[1].mip_level_count = 1
              /\ res.image[1].dimension = "D2"
              /\ res.image[1].depth_or_array_layers = 1
              /\ res.image[1].data = blp.images[1]

\* C19 as stated: DXT1/DXT3/DXT5 content gives BC1/BC2/BC3, anything else the
\* unsupported-texture-format error and no image; a returned image has mip
\* count 1, dimension 2D, depth 1, the mip-0 bytes as payload, and width and
\* height equal to those of mip 0
C19_AsStated ==
    BlpDone =>
        /\ BlpSelectionAndShape
        /\ i_result[1].kind = "Ok" =>
              /\ i_result[1].image[1].width = i_blp[1].mipmap_info[1].width
              /\ i_result[1].image[1].height = i_blp[1].mipmap_info[1].height

\* C19 amended: as above, but the width and height of the image are those of
\* mip 0 rounded up to the next multiple of the 4-pixel block side
C19_FormatAndImage ==
    BlpDone =>
        /\ BlpSelectionAndShape
        /\ i_result[1].kind = "Ok" =>
              /\ i_result[1].image[1].width = RoundUp4(i_blp[1].mipmap_info[1].width)
              /\ i_result[1].image[1].height = RoundUp4(i_blp[1].mipmap_info[1].height)

\* a DXT texture whose mip 0 is 2 x 6 was converted
C19_Witness ==
    /\ BlpDone
    /\ i_result[1].kind = "Ok"
    /\ i_blp[1].mipmap_info[1].width = 2
    /\ i_blp[1].mipmap_info[1].height = 6
    /\ Len(i_blp[1].mipmap_info) = MaxMips


\* the block's payload as read_file reads it, when the file holds all of it
ReadPayload == SubSeq(ReadBlock.stored, 1, ReadBlock.archive_size)
ReadPastFlags ==
    /\ ReadReachesBlock
    /\ "EXISTS" \in ReadBlock.flags
    /\ "ENCRYPTED" \notin ReadBlock.flags
ReadHasPayload ==
    /\ ReadPastFlags
    /\ ReadBlock.archive_size > 0
    /\ Len(ReadBlock.stored) >= ReadBlock.archive_size

\* the uncompressed length sector i (from 0) of the block is expected to have
ExpectedSectorLength(i) ==
    LET sector_size == 512 * Pow2(r_archive[1].sector_shift)
        rest == ReadBlock.size - i * sector_size
    IN  IF rest < 0 THEN 0 ELSE IF rest < sector_size THEN rest ELSE sector_size

\* the offsets read are non-decreasing and inside the payload
OffsetsInOrder(positions) ==
    /\ \A k \in 1..(Len(positions) - 1) : ~LtL(positions[k + 1], positions[k])
    /\ \A k \in 1..Len(positions) : ~LtL(U32(ReadBlock.archive_size), positions[k])

\* the result of sectors i.. when each sector is decided on its own: stripped
\* of its own leading byte and decompressed with it when the block has
\* COMPRESS and the stored length is below the expected one, verbatim otherwise
\* (an empty sector has no leading byte and contributes nothing either way)
RECURSIVE ClaimSectors(_, _)
ClaimSectors(positions, i) ==
    IF i + 1 >= Len(positions) THEN [kind |-> "Ok", bytes |-> <<>>]
    ELSE
    LET start == AsUsize(positions[i + 1])
        end == AsUsize(positions[i + 2])
        sector == SubSeq(ReadPayload, start + 1, end)
        packed == /\ "COMPRESS" \in ReadBlock.flags
                  /\ end > start
                  /\ end - start < ExpectedSectorLength(i)
        out == IF ~packed THEN [kind |-> "Ok", bytes |-> sector]
               ELSE IF try_from(sector[1]) = NONE
               THEN [kind |-> "Err", bytes |-> <<>>]
               ELSE decompress(try_from(sector[1])[1], Tail(sector))
        rest == ClaimSectors(positions, i + 1)
    IN  IF out.kind # "Ok" \/ rest.kind # "Ok" THEN [kind |-> "Err", bytes |-> <<>>]
        ELSE [kind |-> "Ok", bytes |-> out.bytes \o rest.bytes]

\* C21: in a multi-sector read every sector is decided independently: it is
\* decompressed with its own leading algorithm byte exactly when the block is
\* compressed and its stored length is strictly less than its expected
\* uncompressed length, and copied verbatim otherwise, whatever the other
\* sectors hold
C21_SectorsIndependent ==
    (/\ ReadDone /\ r_result[1].multi /\ r_result[1].positions # <<>>
     /\ ReadShiftPlain
     /\ OffsetsInOrder(r_result[1].positions)) =>
        LET claimed == ClaimSectors(r_result[1].positions, 0)
        IN  /\ r_result[1].kind = claimed.kind
            /\ r_result[1].kind = "Ok" => r_result[1].bytes = claimed.bytes

\* what the loop does: the non-empty sectors of a block with COMPRESS and
\* size > archive_size are decompressed only while their leading byte equals
\* the first such sector's byte and that byte is a known code; no sector of
\* any other block is
SectorsFollowFirstAlgorithm ==
    (ReadDone /\ r_result[1].multi) =>
        LET units == r_result[1].units
        IN  /\ units # <<>> =>
                ("COMPRESS" \in ReadBlock.flags /\ ReadBlock.size > ReadBlock.archive_size)
            /\ \A k \in DOMAIN units :
                  units[k].decompressed =
                      (units[k].lead = units[1].lead /\ IsSome(try_from(units[1].lead)))

\* the rule of a SINGLE_UNIT block whose payload was read
SingleUnitRule ==
    (ReadDone /\ ReadHasPayload /\ "SINGLE_UNIT" \in ReadBlock.flags) =>
              IF "COMPRESS" \in ReadBlock.flags /\ ReadBlock.size > ReadBlock.archive_size
              THEN /\ Len(r_result[1].units) = 1
                   /\ r_result[1].units[1].lead = ReadPayload[1]
                   /\ r_result[1].kind = "Ok" <=>
                         (ReadPayload[1] = ZLIB /\ Inflate(Tail(ReadPayload)).ok)
                   /\ r_result[1].kind = "Ok" =>
                         r_result[1].bytes = Inflate(Tail(ReadPayload)).bytes
              ELSE /\ r_result[1].kind = "Ok"
                   /\ r_result[1].bytes = ReadPayload
                   /\ r_result[1].units = <<>>

\* C22: a SINGLE_UNIT block is stripped of its leading algorithm byte and
\* decompressed exactly when COMPRESS is set and size > archive_size, and is
\* returned as its archive_size stored bytes otherwise; a block with
\* archive_size 0 always reads as the empty payload (a block, as the lookup
\* returns it, has EXISTS)
C22_SingleUnit ==
    /\ SingleUnitRule
    /\ (ReadDone /\ ReadReachesBlock /\ "EXISTS" \in ReadBlock.flags
           /\ ReadBlock.archive_size = 0) =>
          (r_result[1].kind = "Ok" /\ r_result[1].bytes = <<>>)

\* what read_file does: the flags are tested before archive_size, and the
\* empty payload is returned for the blocks that pass them
EmptyPayloadAfterFlagChecks ==
    ReadDone =>
        /\ (ReadPastFlags /\ ReadBlock.archive_size = 0) =>
              (r_result[1].kind = "Ok" /\ r_result[1].bytes = <<>>)
        /\ (ReadReachesBlock /\ "ENCRYPTED" \in ReadBlock.flags
              /\ "EXISTS" \in ReadBlock.flags) => r_result[1].kind = "Err"

\* C29: read_file returns an error, and neither aborts nor returns bytes, when
\* the matched entry's block index is not below the number of blocks and when
\* the sector offsets decrease or point past the payload
C29_BadIndexAndOffsetsAreErrors ==
    ReadDone =>
        /\ r_result[1].kind # "Panic"
        /\ (ReadEntryMatches /\ r_archive[1].hash_table[1].block_table_index
                                  >= Len(r_archive[1].block_table)) =>
              r_result[1].kind = "Err"
        /\ (r_result[1].multi /\ r_result[1].positions # <<>>
            /\ ~OffsetsInOrder(r_result[1].positions)) =>
              r_result[1].kind = "Err"

\* what the code does with them: an index past the block table aborts the
\* read; a decreasing offset pair aborts it when overflow checks are on and is
\* an error when they are off
BadIndexAborts ==
    ReadDone =>
        /\ (ReadEntryMatches /\ r_archive[1].hash_table[1].block_table_index
                                  >= Len(r_archive[1].block_table)) =>
              r_result[1].kind = "Panic"
        /\ (r_result[1].kind = "Panic" /\ ~r_checks) =>
              r_result[1].detail \in {"index out of bounds", "attempt to divide by zero"}


\* ------------------------------------------------------------------------
\* get_file_list
\* ------------------------------------------------------------------------
ListDone == IsSome(l_result)
ListIsAscii == IsSome(l_read) /\ \A k \in DOMAIN l_read[1] : l_read[1][k] < 128
\* the listfile is text: ASCII characters and U+00E9 as its two bytes
ListIsText ==
    /\ IsSome(l_read)
    /\ \A k \in DOMAIN l_read[1] :
          \/ l_read[1][k] < 128
          \/ l_read[1][k] = 195 /\ k < Len(l_read[1]) /\ l_read[1][k + 1] = 169
          \/ l_read[1][k] = 169 /\ k > 1 /\ l_read[1][k - 1] = 195

\* the lines of a text whose lines end in "\n" or "\r\n", the last one with
\* or without a terminator: each without its terminator and otherwise whole
StripCR(line) ==
    IF Len(line) > 0 /\ line[Len(line)] = 13 THEN SubSeq(line, 1, Len(line) - 1) ELSE line
ClaimLines(buf) ==
    LET parts == split(buf, <<>>)
        kept == IF parts[Len(parts)] = <<>> THEN SubSeq(parts, 1, Len(parts) - 1)
                ELSE parts
    IN  [k \in DOMAIN kept |-> StripCR(kept[k])]

\* C23: get_file_list returns the names exactly as stored, split on "\n" or
\* "\r\n": each name is the full line without its terminator, for either
\* terminator and with or without one after the last line
C23_NamesAsStored ==
    (ListDone /\ ListIsText) =>
        /\ l_result[1].kind = "Ok"
        /\ l_result[1].names = ClaimLines(l_read[1])

\* what it returns: one name per "\n"-separated part, the part without its
\* last byte whatever that byte is; an error when what is left of a part is
\* not UTF-8, which no ASCII listfile gives
NamesDropLastByte ==
    (ListDone /\ IsSome(l_read)) =>
        LET parts == split(l_read[1], <<>>)
        IN  /\ ListIsAscii => l_result[1].kind = "Ok"
            /\ l_result[1].kind = "Ok" =>
                  /\ Len(l_result[1].names) = Len(parts)
                  /\ \A k \in DOMAIN parts :
                        l_result[1].names[k] =
                            SubSeq(parts[k], 1,
                                   IF Len(parts[k]) = 0 THEN 0 ELSE Len(parts[k]) - 1)


\* ------------------------------------------------------------------------
\* Index buffers
\* ------------------------------------------------------------------------
\* idx[k] = s.vertex-indices[s.triangle-indices[m.triangle-start + k]] for k
\* in [0, m.triangle-count)
ClaimIndexBuffer(skin, submesh) ==
    [k \in 1..submesh.triangle_count |->
        skin.indices[skin.triangles[submesh.triangle_start + k] + 1]]
\* every lookup of the buffers of the skin is inside its array, and every
\* value is a vertex of the model
BuffersDefined ==
    \A mi \in DOMAIN g_skin[1].submeshes :
        \A k \in 1..g_skin[1].submeshes[mi].triangle_count :
            /\ g_skin[1].submeshes[mi].triangle_start + k <= Len(g_skin[1].triangles)
            /\ g_skin[1].triangles[g_skin[1].submeshes[mi].triangle_start + k]
                  < Len(g_skin[1].indices)
            /\ ClaimIndexBuffer(g_skin[1], g_skin[1].submeshes[mi])[k] < Len(g_vertices)
\* the faces of the buffers of all submeshes, one after the other
RECURSIVE ClaimFaces(_, _)
ClaimFaces(skin, mi) ==
    IF mi > Len(skin.submeshes) THEN <<>>
    ELSE SubSeq(ClaimIndexBuffer(skin, skin.submeshes[mi]), 1,
                3 * (skin.submeshes[mi].triangle_count \div 3))
         \o ClaimFaces(skin, mi + 1)
\* the file vertices the corners of the faces of a mesh were made from
FaceCorners(mesh) == [k \in DOMAIN mesh.indices |-> mesh.origin[mesh.indices[k] + 1]]
MeshBuilt == g_stage = "meshed" /\ g_pipeline \in {"M2Asset", "M2::to_mesh4"}

\* C24: the index buffer of sub-mesh m of skin s has length m.triangle_count
\* and element k is s.indices[s.triangles[m.triangle_start + k]]; M2Asset::new
\* and M2::to_mesh4 both emit the faces of this buffer, face j being its
\* positions 3j, 3j+1, 3j+2
C24_IndexBuffer ==
    (MeshBuilt /\ BuffersDefined) =>
        /\ g_meshes.kind = "Ok"
        /\ g_pipeline = "M2Asset" =>
              /\ Len(g_meshes.meshes) = Len(g_skin[1].submeshes)
              /\ \A mi \in DOMAIN g_meshes.meshes :
                    g_meshes.meshes[mi].indices
                        = ClaimIndexBuffer(g_skin[1], g_skin[1].submeshes[mi])
        /\ g_pipeline = "M2::to_mesh4" =>
              FaceCorners(g_meshes.meshes[1]) = ClaimFaces(g_skin[1], 1)

\* the faces to_mesh4 emits: face j of a sub-mesh is positions j, j+1, j+2 of
\* its buffer; M2Asset::new emits the buffer itself
RECURSIVE Mesh4Faces(_, _)
Mesh4Faces(skin, mi) ==
    IF mi > Len(skin.submeshes) THEN <<>>
    ELSE [k \in 1..(3 * (skin.submeshes[mi].triangle_count \div 3)) |->
             ClaimIndexBuffer(skin, skin.submeshes[mi])[((k - 1) \div 3) + ((k - 1) % 3) + 1]]
         \o Mesh4Faces(skin, mi + 1)
Mesh4FacesOverlap ==
    (MeshBuilt /\ BuffersDefined) =>
        /\ g_meshes.kind = "Ok"
        /\ g_pipeline = "M2Asset" =>
              \A mi \in DOMAIN g_meshes.meshes :
                  g_meshes.meshes[mi].indices
                      = ClaimIndexBuffer(g_skin[1], g_skin[1].submeshes[mi])
        /\ g_pipeline = "M2::to_mesh4" =>
              FaceCorners(g_meshes.meshes[1]) = Mesh4Faces(g_skin[1], 1)


\* ------------------------------------------------------------------------
\* Materials
\* ------------------------------------------------------------------------
MatDone == k_pc = "done"
MatKeys == {k_map[k][1] : k \in DOMAIN k_map}
\* textures[texture-combos[texture-combo-index]] when in range and named
ClaimBaseTexture(texture_combo_index) ==
    IF /\ texture_combo_index < Len(k_combos)
       /\ k_combos[texture_combo_index + 1] < Len(k_textures)
       /\ k_textures[k_combos[texture_combo_index + 1] + 1] # ""
    THEN Some(k_combos[texture_combo_index + 1])
    ELSE NONE

\* C25: the material built for key (material-index, texture-combo-index) has
\* as base texture the texture at position texture-combos[texture-combo-index]
\* of the model's textures when that position is in range and the texture is
\* named, and none otherwise
C25_BaseTexture ==
    MatDone =>
        \A k \in DOMAIN k_map :
            k_map[k][2].base_color_texture = ClaimBaseTexture(k_map[k][1][2])

\* what is bound: the texture_combo_index-th of the textures that have a name,
\* when there are that many
NthNamed(n) ==
    LET named == {i \in 0..(Len(k_textures) - 1) : k_textures[i + 1] # ""}
        at == {i \in named : Cardinality({j \in named : j < i}) = n}
    IN  IF at = {} THEN NONE ELSE Some(CHOOSE i \in at : TRUE)
BaseTextureIsNthNamed ==
    MatDone =>
        \A k \in DOMAIN k_map :
            k_map[k][2].base_color_texture = NthNamed(k_map[k][1][2])

\* the texture units naming a submesh, by position in the skin's order
UnitsNaming(sm) == {u \in DOMAIN k_units : k_units[u].skin_section_index = sm}
LastOf(S) == CHOOSE u \in S : \A v \in S : v <= u

\* C26: the material of a submesh named by several texture units is the key
\* of the last of them in the skin's order, whatever units name other
\* submeshes
C26_LastUnitWins ==
    MatDone =>
        \A sm \in 0..(k_submeshes - 1) :
            UnitsNaming(sm) # {} =>
                LET last == k_units[LastOf(UnitsNaming(sm))]
                IN  k_meshes[sm + 1] = <<last.material_index, last.texture_combo_index>>

\* a submesh named by two units with different keys, of which the last one's
\* material had been built before for another unit
C26_Witness ==
    /\ MatDone
    /\ \E sm \in 0..(k_submeshes - 1) :
          /\ Cardinality(UnitsNaming(sm)) = 2
          /\ \E u \in UnitsNaming(sm) :
                /\ u # LastOf(UnitsNaming(sm))
                /\ k_units[u].material_index
                      # k_units[LastOf(UnitsNaming(sm))].material_index
          /\ k_meshes[sm + 1] # <<0, 0>>

\* C28: in the returned model the material key of every submesh of a skin is
\* a key of that skin's materials, submeshes no texture unit names included
C28_MaterialKeysPresent ==
    MatDone => \A sm \in 1..k_submeshes : k_meshes[sm] \in MatKeys

\* the keys of named submeshes are present; a submesh no unit names keeps the
\* key (0, 0), present or not
NamedSubmeshesHaveMaterials ==
    MatDone =>
        \A sm \in 0..(k_submeshes - 1) :
            IF UnitsNaming(sm) # {} THEN k_meshes[sm + 1] \in MatKeys
            ELSE k_meshes[sm + 1] = <<0, 0>>


\* ------------------------------------------------------------------------
\* load() and read_file() sequences
\* ------------------------------------------------------------------------
AllTablesPresent ==
    IsSome(mpq_header) /\ IsSome(mpq_hash_table) /\ IsSome(mpq_block_table)

\* C27: read_file before any successful load returns NotLoaded; once a
\* load() has returned Ok the header and both tables are present and no later
\* read_file returns NotLoaded, also when an earlier load() failed part-way
\* and load() was called again
C27_LoadedAfterOk ==
    /\ life_ok => AllTablesPresent
    /\ IsSome(life_read) =>
          IF life_read[1].after_ok THEN life_read[1].result # "NotLoaded"
          ELSE life_read[1].result = "NotLoaded"

\* what holds: a read_file on an MPQFile that never parsed a header returns
\* NotLoaded, and a load() that returned Ok left a header, with the tables
\* present when the first load() that parsed a header read both
LoadOkMeansHeader ==
    /\ life_ok => IsSome(mpq_header)
    /\ (life_ok /\ file.hash_readable /\ file.block_readable) => AllTablesPresent
    /\ (IsSome(life_read) /\ mpq_header = NONE) => life_read[1].result = "NotLoaded"

\* ------------------------------------------------------------------------
\* The model viewer
\* ------------------------------------------------------------------------
\* C30: at most one model entity exists at a time; the entity alive is of the
\* model whose handle the component holds, the previous one having been
\* despawned when the selection changed; and while the selection is empty
\* after a deselect no model entity exists
C30_OneEntityNoneWhenDeselected ==
    /\ Cardinality(v_world) <= 1
    /\ \A e \in v_world : IsSome(v_m2) /\ e.model = v_m2[1]
    /\ v_selected = "" => v_world = {}

\* what holds: at most one entity, the one the component records, of the
\* model of the component's handle, which a deselect leaves in place
ViewerOneEntity ==
    /\ Cardinality(v_world) <= 1
    /\ \A e \in v_world : IsSome(v_m2) /\ e.model = v_m2[1] /\ v_entity = Some(e.id)
    /\ IsSome(v_entity) => \E e \in v_world : e.id = v_entity[1]
    /\ v_selected # "" => v_m2 = Some(v_selected)

====
